---- MODULE Spec2Model ----
(***************************************************************************)
(* A model of the pattern-detection core of dex-sonar: the circular tick   *)
(* buffer, the sliding-window rate limiters, the trend (segment)           *)
(* compressor, the pattern matcher and the chart's update / get_pattern.   *)
(*                                                                         *)
(* Conventions.  Timestamps and durations are integers (minutes for the    *)
(* chart, abstract clock units for the rate limiter).  A Python float      *)
(* that holds a fractional change c is modelled by the exact rational      *)
(* 1 + c, written as a pair <<num, den>> in lowest terms.  Python's None   *)
(* for an optional duration is 0 (None and a zero Timedelta are both       *)
(* falsy, and the code only ever tests truthiness).                        *)
(***************************************************************************)
EXTENDS Integers, Sequences, FiniteSets, TLC

VARIABLES
    cl,              \* CircularList under test: [list, capacity, beginning, size]
    ref,             \* the flat reference list the CircularList is compared with
    cl_error,        \* exception raised by the last CircularList call, or "none"
    cl_call,         \* the last CircularList call: [op, args, before, raised, value]
    timeline,        \* RateLimiter.timeline: deque of send timestamps
    request_limits,  \* RateLimiter.request_limits: [max, time_period]
    raise_on_limit,  \* RateLimiter.raise_on_limit
    limiter_type,    \* "Smart" or "Strict": the concrete RateLimiter subclass
    now,             \* the wall clock read by Timestamp.now()
    rl_ret,          \* what the last rate limiter call returned
    pending,         \* the last wait handed out and the explicit request count it was
                     \* asked for, until the next request is marked
    sent,            \* timestamps of the requests recorded within the last period
    ticks_in,        \* the tick sequence handed to the compressor
    reverse_traversal, \* Segments' reverse_traversal argument
    trends_views,    \* the list TrendsView.generate_all returned, <<>> before the call
    trends_view,     \* the index of the view a single generate_trends call used, else 0
    segments_out,    \* the list Segments.__init__ built, <<>> before the call
    recompressed,    \* what compressing the uncapped output once more gave, <<>> before
    pc,              \* where the compression run stands
    config,          \* the settings read from the .ini file
    pool,            \* the NetworkPool handed to the matcher: <<>> (None) or <<liquidity>>
    match_ret,       \* the matches Pattern.match_any yielded
    unit_ret,        \* the last PatternUnit.match call: its arguments and its value
    chart,           \* Chart: [ticks, previous_pattern_end_timestamp, repetition_reset_cooldown]
    calls,           \* results of the get_pattern calls made since the chart or the clock
                     \* last changed (the latest two); under SpecCycles one per cycle
    registry,        \* Pools: [pools, tokens, dexes, pool_filter, repeated_pool_filter_key]
    processed,       \* the update and apply_filter calls made on the registry, in order
    backfill,        \* PoolsWithAPI: [pools, last_chart_update, update_counter, phase, cycles]
    api,             \* an API client, its Cooldown, the clock and the _get_json call under way
    app,             \* Application._run: [pc, error, propagated, closed]
    loop,            \* the compression loop under way: its deque, index i and view
    tasks            \* the tasks of the event loop: which one runs, where each stands,
                     \* and the registry and tick buffer they share

cl_vars == <<cl, ref, cl_error, cl_call>>
rl_vars == <<timeline, request_limits, raise_on_limit, limiter_type, now, rl_ret, pending, sent>>
rl_rest == <<timeline, request_limits, raise_on_limit, limiter_type, rl_ret, pending, sent>>
tr_vars == <<ticks_in, reverse_traversal, trends_views, trends_view, segments_out,
             recompressed, pc>>
pt_vars == <<config, pool, match_ret, unit_ret>>
ch_vars == <<chart, calls>>
pr_vars == <<registry, processed>>
bf_vars == <<backfill>>
api_vars == <<api>>
app_vars == <<app>>
lt_vars == <<loop, tasks>>
vars == <<cl, ref, cl_error, cl_call, timeline, request_limits, raise_on_limit, limiter_type, now,
          rl_ret, pending, sent, ticks_in, reverse_traversal, trends_views, trends_view,
          segments_out, recompressed, pc, config, pool, match_ret, unit_ret, chart, calls,
          registry, processed, backfill, api, app, loop, tasks>>

----------------------------------------------------------------------------
(* Generic helpers *)

Max2(a, b) == IF a >= b THEN a ELSE b
Min2(a, b) == IF a <= b THEN a ELSE b
Abs(a) == IF a >= 0 THEN a ELSE -a

\* Sequences over S of length at most n.
SeqUpTo(S, n) == UNION {[1..k -> S] : k \in 0..n}

\* s without its first k elements.
DropFirst(s, k) == SubSeq(s, k + 1, Len(s))

----------------------------------------------------------------------------
(* utils/circular_list.py *)

NoItem == 0

MaxCapacity == 3
MaxItem == 2
MaxExtend == 2

Items == 1..MaxItem

CircularList(capacity) ==
    [list |-> [k \in 1..capacity |-> NoItem], capacity |-> capacity, beginning |-> 0, size |-> 0]

TranslateIndexNoWrap(c, i) ==
    LET base == IF i >= 0 THEN c.beginning ELSE c.beginning + c.size
    IN  Min2(base + i, c.capacity - 1)

\* _translate_index: Python's % with a positive modulus is non-negative, as TLA+'s is.
translate_index(c, i) ==
    LET base == IF i >= 0 THEN c.beginning ELSE c.beginning + c.size
    IN  (base + i) % c.capacity

\* The backing array is 0-based in the code and 1-based here.
append(c, item) ==
    LET written == [c EXCEPT !.list[translate_index(c, c.size) + 1] = item]
    IN  IF c.size < c.capacity
        THEN [written EXCEPT !.size = c.size + 1]
        ELSE [written EXCEPT !.beginning = translate_index(written, 1)]

RECURSIVE extend(_, _)
extend(c, items) ==
    IF Len(items) = 0 THEN c ELSE extend(append(c, Head(items)), Tail(items))

PopsWhateverTheSize(c, n) == TRUE

\* pop: the size check; the caller raises NotEnoughItemsToPop when it fails.
CanPop(c, n) == c.size - n >= 0
pop(c, n) == [c EXCEPT !.size = c.size - n]

clear(c) == [c EXCEPT !.size = 0]

len(c) == c.size

\* __iter__
iter(c) == [i \in 1..c.size |-> c.list[((c.beginning + (i - 1)) % c.capacity) + 1]]

\* __getitem__ with an int
IndexInRange(c, i) == -c.size <= i /\ i < c.size
getitem(c, i) == c.list[translate_index(c, i) + 1]

\* __getitem__ with a slice of step 1; start and stop are <<>> (None) or <<i>>.
\* Only called with c.size > 0 here (start % self.size divides by the size).
getslice(c, start, stop) ==
    LET start0 == IF start = <<>> THEN 0 ELSE start[1]
        stop0  == IF stop = <<>> THEN c.size ELSE stop[1]
        start1 == start0 % c.size
        stop1  == IF stop0 # c.size THEN stop0 % c.size ELSE stop0
    IN  [k \in 1..Max2(stop1 - start1, 0) |-> c.list[translate_index(c, start1 + k - 1) + 1]]

\* The reference list: append at the end, drop the oldest beyond the capacity.
RefAppend(r, capacity, item) ==
    IF Len(r) < capacity THEN Append(r, item) ELSE Append(Tail(r), item)

RECURSIVE RefExtend(_, _, _)
RefExtend(r, capacity, items) ==
    IF Len(items) = 0 THEN r
    ELSE RefExtend(RefAppend(r, capacity, Head(items)), capacity, Tail(items))

\* A call on the buffer c: the arguments, the exception and the value it gave.
Call(op, args, c, raised, value) ==
    [op |-> op, args |-> args, before |-> c, raised |-> raised, value |-> value]

NoCall == Call("none", <<>>, CircularList(1), "none", <<>>)

CLInit ==
    /\ cl \in {CircularList(c) : c \in 1..MaxCapacity}
    /\ ref = <<>>
    /\ cl_error = "none"
    /\ cl_call = NoCall

CLIdle == cl = CircularList(1) /\ ref = <<>> /\ cl_error = "none" /\ cl_call = NoCall

CLAppend ==
    \E item \in Items :
        /\ cl' = append(cl, item)
        /\ ref' = RefAppend(ref, cl.capacity, item)
        /\ cl_error' = "none"
        /\ cl_call' = Call("append", <<item>>, cl, "none", <<>>)

CLExtend ==
    \E items \in SeqUpTo(Items, MaxExtend) :
        /\ cl' = extend(cl, items)
        /\ ref' = RefExtend(ref, cl.capacity, items)
        /\ cl_error' = "none"
        /\ cl_call' = Call("extend", <<items>>, cl, "none", <<>>)

CLPop ==
    \E n \in 1..(MaxCapacity + 1) :
        IF CanPop(cl, n)
        THEN /\ cl' = pop(cl, n)
             /\ ref' = SubSeq(ref, 1, Len(ref) - n)
             /\ cl_error' = "none"
             /\ cl_call' = Call("pop", <<n>>, cl, "none", <<>>)
        ELSE /\ cl_error' = "NotEnoughItemsToPop"
             /\ cl_call' = Call("pop", <<n>>, cl, "NotEnoughItemsToPop", <<>>)
             /\ UNCHANGED <<cl, ref>>

CLClear ==
    /\ cl' = clear(cl)
    /\ ref' = <<>>
    /\ cl_error' = "none"
    /\ cl_call' = Call("clear", <<>>, cl, "none", <<>>)

MaxSliceIndex == 4            \* slice bounds run over -MaxSliceIndex..MaxSliceIndex
SliceBounds == {<<>>} \cup {<<i>> : i \in -MaxSliceIndex..MaxSliceIndex}

\* buf[start:stop]: start % self.size raises ZeroDivisionError on an empty buffer.
CLGetSlice ==
    \E start \in SliceBounds, stop \in SliceBounds :
        /\ cl_call' = IF cl.size = 0
                      THEN Call("getslice", <<start, stop>>, cl, "ZeroDivisionError", <<>>)
                      ELSE Call("getslice", <<start, stop>>, cl, "none",
                                getslice(cl, start, stop))
        /\ cl_error' = IF cl.size = 0 THEN "ZeroDivisionError" ELSE "none"
        /\ UNCHANGED <<cl, ref>>

----------------------------------------------------------------------------
(* api/request_limits.py *)

MaxLimit == 3        \* largest request_limits.max drawn in SpecRL
MaxPeriod == 2       \* largest request_limits.time_period drawn in SpecRL
MaxNow == 4          \* the clock stops advancing here in SpecRL
MaxBurst == 1        \* requests recorded within one period beyond request_limits.max

GeckoMax == 30
GeckoPeriod == 60
GeckoStep == 30      \* the clock advances in half periods in SpecGecko
MaxGeckoSteps == 2

\* What a call returned: the operation, its argument, the value or the exception,
\* how many timestamps were tracked when it was made, and whether it came after a
\* handed-out wait had fully elapsed (and for how many requests that wait was).
NoRet == [op |-> "none", n |-> 0, value |-> 0, error |-> "none",
          before |-> 0, waited |-> FALSE, promised |-> 0]
NoPending == [valid |-> FALSE, n |-> 0, due |-> 0]

\* _clear_outdated_requests: drop the leading run of timestamps whose
\* time_elapsed() exceeds the period; stop at the first one that does not.
RECURSIVE OutdatedPrefix(_, _, _)
OutdatedPrefix(tl, t, period) ==
    IF Len(tl) > 0 /\ t - Head(tl) > period
    THEN 1 + OutdatedPrefix(Tail(tl), t, period)
    ELSE 0

clear_outdated_requests(tl, t, period) == DropFirst(tl, OutdatedPrefix(tl, t, period))

TimeNeededIgnoringPeriod(request_timestamp, t, period) ==
    Max2(request_timestamp - t, 0)

\* _get_time_needed_for_request_to_be_outdated
get_time_needed_for_request_to_be_outdated(request_timestamp, t, period) ==
    LET outdatedness_bound == t - period
    IN  Max2(request_timestamp - outdatedness_bound, 0)

\* get_available_requests, on an already pruned timeline
available_requests(tl, limits) == limits.max - Len(tl)

\* SmartRateLimiter.get_time_until_new_requests_can_be_made, after the
\* InvalidRequestNumber check; requests = 0 stands for None (both falsy).
SmartTime(tl, t, limits, requests) ==
    LET cleared   == clear_outdated_requests(tl, t, limits.time_period)
        wanted    == IF requests # 0 THEN requests ELSE limits.max
        available == available_requests(cleared, limits)
        lacking   == wanted - available
    IN  IF available >= wanted
        THEN 0
        ELSE get_time_needed_for_request_to_be_outdated(cleared[lacking], t, limits.time_period)

\* StrictRateLimiter.get_time_until_new_requests_can_be_made
StrictTimeOldest(tl, t, limits) ==
    LET cleared == clear_outdated_requests(tl, t, limits.time_period)
    IN  IF Len(cleared) > 0
        THEN get_time_needed_for_request_to_be_outdated(cleared[1], t, limits.time_period)
        ELSE 0

StrictTime(tl, t, limits) ==
    LET cleared == clear_outdated_requests(tl, t, limits.time_period)
    IN  IF Len(cleared) > 0
        THEN get_time_needed_for_request_to_be_outdated(cleared[Len(cleared)], t, limits.time_period)
        ELSE 0

RLConfigured(limits, types, raising) ==
    /\ request_limits \in limits
    /\ limiter_type \in types
    /\ raise_on_limit \in raising
    /\ timeline = <<>>
    /\ now = 0
    /\ rl_ret = NoRet
    /\ pending = NoPending
    /\ sent = <<>>

RLInit ==
    RLConfigured([max : 1..MaxLimit, time_period : 1..MaxPeriod], {"Smart", "Strict"}, BOOLEAN)

\* GeckoTerminalAPI: REQUEST_LIMITS and RATE_LIMITER_TYPE; PoolsWithAPI builds it
\* with API.__init__'s default raise_on_rate_limit=False.
GeckoInit ==
    RLConfigured({[max |-> GeckoMax, time_period |-> GeckoPeriod]}, {"Strict"}, {FALSE})

RLIdle ==
    /\ request_limits = [max |-> 1, time_period |-> 1]
    /\ limiter_type = "Smart"
    /\ raise_on_limit = FALSE
    /\ timeline = <<>>
    /\ now = 0
    /\ rl_ret = NoRet
    /\ pending = NoPending
    /\ sent = <<>>

RecordWithoutEviction(tl, max, t) == Append(tl, t)

\* mark_request_sending when it does not raise: popleft on a full, non-empty
\* timeline, then append.
record_request(tl, max, t) ==
    Append(IF Len(tl) = max /\ Len(tl) > 0 THEN Tail(tl) ELSE tl, t)

\* mark_request_sending
MarkRequestSending ==
    /\ Len(sent) < request_limits.max + MaxBurst
    /\ IF Len(timeline) = request_limits.max /\ raise_on_limit
       THEN /\ rl_ret' = [NoRet EXCEPT !.op = "mark", !.error = "RateLimitExceeded",
                                       !.before = Len(timeline)]
            /\ UNCHANGED <<timeline, sent>>
       ELSE /\ timeline' = record_request(timeline, request_limits.max, now)
            /\ sent' = Append(sent, now)
            /\ rl_ret' = [NoRet EXCEPT !.op = "mark", !.before = Len(timeline)]
    /\ pending' = NoPending
    /\ UNCHANGED <<request_limits, raise_on_limit, limiter_type, now>>

\* get_available_requests
GetAvailableRequests ==
    /\ timeline' = clear_outdated_requests(timeline, now, request_limits.time_period)
    /\ rl_ret' = [NoRet EXCEPT !.op = "available",
                               !.value = available_requests(timeline', request_limits),
                               !.before = Len(timeline),
                               !.waited = pending.valid /\ now >= pending.due,
                               !.promised = pending.n]
    /\ UNCHANGED <<request_limits, raise_on_limit, limiter_type, now, pending, sent>>

\* The values of `requests` tried: None (0), one, two, the limit and one more.
RequestChoices(max) == {0, 1, 2, max, max + 1} \cap 0..(max + 1)

\* get_time_until_new_requests_can_be_made(requests); 0 stands for None.
GetTimeUntilNewRequestsCanBeMade ==
    \E requests \in RequestChoices(request_limits.max) :
        /\ timeline' = clear_outdated_requests(timeline, now, request_limits.time_period)
        /\ IF limiter_type = "Smart" /\ requests > request_limits.max
           THEN /\ rl_ret' = [NoRet EXCEPT !.op = "time_until", !.n = requests,
                                           !.error = "InvalidRequestNumber"]
                /\ UNCHANGED pending
           ELSE LET value == IF limiter_type = "Smart"
                             THEN SmartTime(timeline, now, request_limits, requests)
                             ELSE StrictTime(timeline, now, request_limits)
                IN  /\ rl_ret' = [NoRet EXCEPT !.op = "time_until", !.n = requests,
                                               !.value = value,
                                               !.before = Len(timeline),
                                               !.waited = pending.valid /\ now >= pending.due]
                    /\ pending' = [valid |-> TRUE,
                                   n |-> IF limiter_type = "Strict" THEN 0 ELSE requests,
                                   due |-> now + value]
        /\ UNCHANGED <<request_limits, raise_on_limit, limiter_type, now, sent>>

\* The requests of `window` that are newer than t - period.
Newer(window, t, period) == SelectSeq(window, LAMBDA ts : ts > t - period)

\* Time passes; the value returned by the last call has been consumed.
Advance(t) ==
    /\ now' = t
    /\ sent' = Newer(sent, t, request_limits.time_period)
    /\ rl_ret' = NoRet
    /\ UNCHANGED <<timeline, request_limits, raise_on_limit, limiter_type, pending>>

Tick(step, horizon) ==
    /\ now + step <= horizon
    /\ Advance(now + step)

\* The caller sleeps for the wait it was handed (PoolsWithAPI.update_via_api).
SleepReturnedWait(horizon) ==
    /\ pending.valid
    /\ pending.due > now
    /\ pending.due <= horizon
    /\ Advance(pending.due)

----------------------------------------------------------------------------
(* network_and_pools/pool_with_chart.py: ticks, trends and their compression *)

\* A tick; an IncompleteTick carries no volume (0 here).
CompleteTick(timestamp, price, volume) ==
    [timestamp |-> timestamp, price |-> price, volume |-> volume, kind |-> "Complete"]
IncompleteTick(timestamp, price) ==
    [timestamp |-> timestamp, price |-> price, volume |-> 0, kind |-> "Incomplete"]

RECURSIVE GCD(_, _)
GCD(a, b) == IF b = 0 THEN a ELSE GCD(b, a % b)

\* A change c is kept as the exact ratio 1 + c = num / den in lowest terms, den > 0.
Ratio(num, den) == LET g == GCD(num, den) IN <<num \div g, den \div g>>

\* (y - x) / x if x else 0
ChangeBetween(x, y) == IF x # 0 THEN Ratio(y, x) ELSE <<1, 1>>

\* The sign of c, and c1 * c2 >= 0.
Direction(change) ==
    IF change[1] > change[2] THEN 1 ELSE IF change[1] < change[2] THEN -1 ELSE 0
ProductNonNegative(c1, c2) == (c1[1] - c1[2]) * (c2[1] - c2[2]) >= 0

\* abs(c) as a fraction <<num, den>>, and the comparison of two such fractions.
Magnitude(change) == <<Abs(change[1] - change[2]), change[2]>>
FracLeq(a, b) == a[1] * b[2] <= b[1] * a[2]
FracLess(a, b) == a[1] * b[2] < b[1] * a[2]

Trend(change, start_timestamp, end_timestamp) ==
    [change |-> change, start_timestamp |-> start_timestamp, end_timestamp |-> end_timestamp]

get_timeframe(trend) == trend.end_timestamp - trend.start_timestamp
get_magnitude(trend) == Magnitude(trend.change)
is_upward(trend) == Direction(trend.change) > 0

IsStrictlyCodirectional(a, b) ==
    (a.change[1] - a.change[2]) * (b.change[1] - b.change[2]) > 0

is_codirectional_with(a, b) == ProductNonNegative(a.change, b.change)

TrendAddSummingChanges(self, other) ==
    Trend(Ratio(self.change[1] * other.change[2] + other.change[1] * self.change[2]
                    - self.change[2] * other.change[2],
                self.change[2] * other.change[2]),
          IF self.start_timestamp < other.end_timestamp
          THEN self.start_timestamp ELSE other.start_timestamp,
          IF self.start_timestamp < other.end_timestamp
          THEN other.end_timestamp ELSE self.end_timestamp)

\* Trend.__add__: (1 + c1)(1 + c2) - 1 over the joined time span.
TrendAdd(self, other) ==
    Trend(Ratio(self.change[1] * other.change[1], self.change[2] * other.change[2]),
          IF self.start_timestamp < other.end_timestamp
          THEN self.start_timestamp ELSE other.start_timestamp,
          IF self.start_timestamp < other.end_timestamp
          THEN other.end_timestamp ELSE self.end_timestamp)

\* _concatenate: sum(trends[1:], start=trends[0])
RECURSIVE SumFrom(_, _)
SumFrom(acc, rest) ==
    IF Len(rest) = 0 THEN acc ELSE SumFrom(TrendAdd(acc, Head(rest)), Tail(rest))
concatenate(trends) == SumFrom(Head(trends), Tail(trends))

Reverse(s) == [k \in 1..Len(s) |-> s[Len(s) + 1 - k]]

\* deque.remove(x): drops the first element equal to x.
RECURSIVE RemoveFirst(_, _)
RemoveFirst(s, x) ==
    IF Len(s) = 0 THEN s
    ELSE IF Head(s) = x THEN Tail(s)
    ELSE <<Head(s)>> \o RemoveFirst(Tail(s), x)

RECURSIVE RemoveAll(_, _)
RemoveAll(s, xs) ==
    IF Len(xs) = 0 THEN s ELSE RemoveAll(RemoveFirst(s, Head(xs)), Tail(xs))

\* deque.insert(i, x) with a 0-based i; an i beyond the end appends.
InsertAt(s, i, x) ==
    LET k == Min2(i, Len(s)) IN SubSeq(s, 1, k) \o <<x>> \o SubSeq(s, k + 1, Len(s))

ReplaceByFirstPart(trends, i, parts) ==
    InsertAt(RemoveAll(trends, parts), i, Head(parts))

\* _replace_by_concatenation
replace_by_concatenation(trends, i, parts) ==
    InsertAt(RemoveAll(trends, parts), i, concatenate(parts))

\* A view's limits: max_timeframe in minutes and max_magnitude in percent, 0 for None.
TrendsViewValue(max_timeframe, max_magnitude) ==
    [max_timeframe |-> max_timeframe, max_magnitude |-> max_magnitude]

TIMEFRAME_10M == TrendsViewValue(10, 0)
TIMEFRAME_15M == TrendsViewValue(15, 0)
TIMEFRAME_30M == TrendsViewValue(30, 0)
GLOBAL == TrendsViewValue(0, 0)

\* Enum order of TrendsView.
TrendsView == <<TIMEFRAME_10M, TIMEFRAME_15M, TIMEFRAME_30M, GLOBAL>>

WithinLimitsForPairsAlone(view, parts) ==
    \/ Len(parts) > 2
    \/ LET x == concatenate(parts)
       IN  /\ ~(view.max_timeframe # 0 /\ get_timeframe(x) > view.max_timeframe)
           /\ ~(view.max_magnitude # 0 /\ FracLess(<<view.max_magnitude, 100>>, get_magnitude(x)))

\* _are_within_limits
are_within_limits(view, parts) ==
    LET x == concatenate(parts)
    IN  /\ ~(view.max_timeframe # 0 /\ get_timeframe(x) > view.max_timeframe)
        /\ ~(view.max_magnitude # 0 /\ FracLess(<<view.max_magnitude, 100>>, get_magnitude(x)))

\* _can_be_absorbed
can_be_absorbed(left, middle, right) ==
    /\ is_codirectional_with(left, right)
    /\ ~is_codirectional_with(left, middle)
    /\ FracLeq(get_magnitude(middle), get_magnitude(left))
    /\ FracLeq(get_magnitude(middle), get_magnitude(right))

\* The while loop of Trends.initialize over the reversed deque, with a 0-based i;
\* yields the deque and the index it stopped at.
RECURSIVE Scan(_, _, _)
Scan(trends, i, view) ==
    IF i + 2 < Len(trends)
    THEN LET t1 == trends[i + 1]
             t2 == trends[i + 2]
             t3 == trends[i + 3]
         IN  IF is_codirectional_with(t1, t2) /\ are_within_limits(view, <<t1, t2>>)
             THEN Scan(replace_by_concatenation(trends, i, <<t1, t2>>), Max2(i - 2, 0), view)
             ELSE IF is_codirectional_with(t2, t3) /\ are_within_limits(view, <<t2, t3>>)
             THEN Scan(replace_by_concatenation(trends, i + 1, <<t2, t3>>), Max2(i - 2, 0), view)
             ELSE IF can_be_absorbed(t1, t2, t3) /\ are_within_limits(view, <<t1, t2, t3>>)
             THEN Scan(replace_by_concatenation(trends, i, <<t1, t2, t3>>), Max2(i - 2, 0), view)
             ELSE Scan(trends, i + 1, view)
    ELSE [trends |-> trends, i |-> i]

\* The trailing two-trend check of Trends.initialize; it reads trends[i], trends[i + 1].
FinalPair(scanned, view) ==
    IF Len(scanned.trends) = 2
    THEN LET t1 == scanned.trends[scanned.i + 1]
             t2 == scanned.trends[scanned.i + 2]
         IN  IF is_codirectional_with(t1, t2) /\ are_within_limits(view, <<t1, t2>>)
             THEN replace_by_concatenation(scanned.trends, 0, <<t1, t2>>)
             ELSE scanned.trends
    ELSE scanned.trends

\* One raw Trend per pair of consecutive ticks.
RawTrends(ticks) ==
    [k \in 1..Max2(Len(ticks) - 1, 0) |->
        Trend(ChangeBetween(ticks[k].price, ticks[k + 1].price),
              ticks[k].timestamp, ticks[k + 1].timestamp)]

\* Trends.initialize on a chronological list of trends (raw, or a finer view's).
initialize(trends, view) ==
    Reverse(FinalPair(Scan(Reverse(trends), 0, view), view))

\* TrendsView.generate_all: each view compresses the previous one.
RECURSIVE GenerateFrom(_, _)
GenerateFrom(previous, k) ==
    IF k > Len(TrendsView) THEN <<>>
    ELSE LET this == initialize(previous, TrendsView[k])
         IN  <<this>> \o GenerateFrom(this, k + 1)

generate_all(ticks) == GenerateFrom(RawTrends(ticks), 1)

----------------------------------------------------------------------------
(* network/pool_with_chart/segments.py: the Segment revision of the compressor *)

Segment(timestamps, prices) == [timestamps |-> timestamps, prices |-> prices]

\* __post_init__: change = prices[-1] / prices[0] - 1
SegmentChange(segment) == Ratio(segment.prices[Len(segment.prices)], segment.prices[1])

get_start_timestamp(segment) == segment.timestamps[1]
get_end_timestamp(segment) == segment.timestamps[Len(segment.timestamps)]

has_same_direction_as(a, b) == ProductNonNegative(SegmentChange(a), SegmentChange(b))

\* Segment.__add__
SegmentAdd(self, other) ==
    IF get_start_timestamp(self) < get_start_timestamp(other)
    THEN Segment(self.timestamps \o other.timestamps, self.prices \o other.prices)
    ELSE Segment(other.timestamps \o self.timestamps, other.prices \o self.prices)

RECURSIVE SegmentSumFrom(_, _)
SegmentSumFrom(acc, rest) ==
    IF Len(rest) = 0 THEN acc ELSE SegmentSumFrom(SegmentAdd(acc, Head(rest)), Tail(rest))

\* Segments._replace_by_concatenation
segments_replace_by_concatenation(segments, i, parts) ==
    InsertAt(RemoveAll(segments, parts), i, SegmentSumFrom(Head(parts), Tail(parts)))

AbsorbedByLeftAlone(left, middle, right) ==
    /\ has_same_direction_as(left, right)
    /\ ~has_same_direction_as(left, middle)
    /\ FracLeq(Magnitude(SegmentChange(middle)), Magnitude(SegmentChange(left)))

\* Segments._can_be_absorbed
segments_can_be_absorbed(left, middle, right) ==
    /\ has_same_direction_as(left, right)
    /\ ~has_same_direction_as(left, middle)
    /\ FracLeq(Magnitude(SegmentChange(middle)), Magnitude(SegmentChange(left)))
    /\ FracLeq(Magnitude(SegmentChange(middle)), Magnitude(SegmentChange(right)))

\* The while loop of Segments.__init__, with a 0-based i.
RECURSIVE SegmentsScan(_, _)
SegmentsScan(segments, i) ==
    IF i + 2 < Len(segments)
    THEN LET s1 == segments[i + 1]
             s2 == segments[i + 2]
             s3 == segments[i + 3]
         IN  IF has_same_direction_as(s1, s2)
             THEN SegmentsScan(segments_replace_by_concatenation(segments, i, <<s1, s2>>),
                               Max2(i - 2, 0))
             ELSE IF has_same_direction_as(s2, s3)
             THEN SegmentsScan(segments_replace_by_concatenation(segments, i + 1, <<s2, s3>>),
                               Max2(i - 2, 0))
             ELSE IF segments_can_be_absorbed(s1, s2, s3)
             THEN SegmentsScan(segments_replace_by_concatenation(segments, i, <<s1, s2, s3>>),
                               Max2(i - 2, 0))
             ELSE SegmentsScan(segments, i + 1)
    ELSE [segments |-> segments, i |-> i]

SegmentsFinalPair(scanned) ==
    IF Len(scanned.segments) = 2
    THEN LET s1 == scanned.segments[scanned.i + 1]
             s2 == scanned.segments[scanned.i + 2]
         IN  IF has_same_direction_as(s1, s2)
             THEN segments_replace_by_concatenation(scanned.segments, 0, <<s1, s2>>)
             ELSE scanned.segments
    ELSE scanned.segments

RawSegments(ticks) ==
    [k \in 1..Max2(Len(ticks) - 1, 0) |->
        Segment(<<ticks[k].timestamp, ticks[k + 1].timestamp>>,
                <<ticks[k].price, ticks[k + 1].price>>)]

\* Segments.__init__ on a chronological list of segments (raw, or an earlier result).
SegmentsInit(segments, reverse) ==
    LET start   == IF reverse THEN Reverse(segments) ELSE segments
        scanned == SegmentsFinalPair(SegmentsScan(start, 0))
    IN  IF reverse THEN Reverse(scanned) ELSE scanned

Segments(ticks, reverse) == SegmentsInit(RawSegments(ticks), reverse)

\* zip(ticks_or_segments[:-1], ticks_or_segments[1:]) turned into Segments, on the
\* two slices the buffer gave.
ZipSegments(firsts, seconds) ==
    [k \in 1..Min2(Len(firsts), Len(seconds)) |->
        Segment(<<firsts[k].timestamp, seconds[k].timestamp>>,
                <<firsts[k].price, seconds[k].price>>)]

\* Segments.__init__ on the chart's CircularList, as Chart.get_pattern's match_any
\* and SegmentsViews.generate_all call it: the exception raised and the list built.
\* The two slices divide by the size of the buffer.
SegmentsOnBuffer(c, reverse) ==
    IF c.size = 0
    THEN [raised |-> "ZeroDivisionError", segments |-> <<>>]
    ELSE [raised |-> "none",
          segments |-> SegmentsInit(ZipSegments(getslice(c, <<>>, <<-1>>),
                                                getslice(c, <<1>>, <<>>)), reverse)]

----------------------------------------------------------------------------
(* network_and_pools/pool_with_chart.py: pattern units, bodies and the Pattern table *)

ScaleBase == 100000           \* PatternUnit._scale: base
ScaleSlope == <<5, 2>>        \* PatternUnit._scale: slope = 2.5

\* min_change is kept in percent; __post_init__'s division by 100 is the denominator
\* of UnitMagnitude.
PatternUnit(min_change, min_timeframe, max_timeframe) ==
    [min_change |-> min_change, min_timeframe |-> min_timeframe, max_timeframe |-> max_timeframe]

\* PatternUnit.get_magnitude
UnitMagnitude(unit) == <<Abs(unit.min_change), 100>>

\* _have_same_sign(self.min_change, trend.change): a * b >= 0
have_same_sign(min_change, change) == min_change * (change[1] - change[2]) >= 0

\* A product of two fractions in lowest terms.
FracTimes(a, b) == Ratio(a[1] * b[1], a[2] * b[2])

ScaleIgnoringPool(x, p, testing_mode) == IF testing_mode THEN Ratio(x[1], x[2] * 5) ELSE x

\* PatternUnit._scale(x, pool): x / 5 in testing mode, x * (1 + slope * deviation)
\* for a pool whose liquidity is set and below base, else x.
scale(x, p, testing_mode) ==
    IF testing_mode THEN Ratio(x[1], x[2] * 5)
    ELSE IF p # <<>> /\ p[1] # 0 /\ p[1] < ScaleBase
    THEN FracTimes(x, Ratio(ScaleSlope[2] * ScaleBase + ScaleSlope[1] * (ScaleBase - p[1]),
                            ScaleSlope[2] * ScaleBase))
    ELSE x

MatchWithStrictMagnitude(unit, trend, p, testing_mode) ==
    /\ have_same_sign(unit.min_change, trend.change)
    /\ FracLess(scale(UnitMagnitude(unit), p, testing_mode), get_magnitude(trend))
    /\ ~(unit.min_timeframe # 0 /\ get_timeframe(trend) < unit.min_timeframe)
    /\ ~(unit.max_timeframe # 0 /\ get_timeframe(trend) > unit.max_timeframe)

\* PatternUnit.match
unit_match(unit, trend, p, testing_mode) ==
    /\ have_same_sign(unit.min_change, trend.change)
    /\ FracLeq(scale(UnitMagnitude(unit), p, testing_mode), get_magnitude(trend))
    /\ ~(unit.min_timeframe # 0 /\ get_timeframe(trend) < unit.min_timeframe)
    /\ ~(unit.max_timeframe # 0 /\ get_timeframe(trend) > unit.max_timeframe)

\* _PatternBody.__init__; significance_threshold is in percent, 0 for None.
\* magnitude_index: max() keeps the first of equal maxima; 1-based here.
PatternBody(units, significance_threshold) ==
    [units |-> units,
     length |-> Len(units),
     significance_threshold |-> significance_threshold,
     magnitude_index |->
        CHOOSE k \in 1..Len(units) :
            /\ \A j \in 1..Len(units) : Abs(units[j].min_change) <= Abs(units[k].min_change)
            /\ \A j \in 1..(k - 1) : Abs(units[j].min_change) < Abs(units[k].min_change)]

\* _PatternBody._match: all() over zip(units, trends_slice)
body_match_slice(body, trends_slice, p, testing_mode) ==
    \A k \in 1..Min2(body.length, Len(trends_slice)) :
        unit_match(body.units[k], trends_slice[k], p, testing_mode)

SignificantWhateverTheThreshold(body, trends_slice) ==
    [start_timestamp |-> trends_slice[1].start_timestamp,
     end_timestamp |-> trends_slice[Len(trends_slice)].end_timestamp,
     significant |-> TRUE,
     magnitude |-> get_magnitude(trends_slice[body.magnitude_index])]

\* _PatternBody._extract_info: ratio >= threshold, with
\* ratio = magnitude / pattern_magnitude and threshold = significance_threshold / 100.
extract_info(body, trends_slice) ==
    LET magnitude == get_magnitude(trends_slice[body.magnitude_index])
        pattern_magnitude == UnitMagnitude(body.units[body.magnitude_index])
    IN  [start_timestamp |-> trends_slice[1].start_timestamp,
         end_timestamp |-> trends_slice[Len(trends_slice)].end_timestamp,
         significant |->
            IF body.significance_threshold = 0 THEN TRUE
            ELSE magnitude[1] * pattern_magnitude[2] * 100
                    >= body.significance_threshold * pattern_magnitude[1] * magnitude[2],
         magnitude |-> magnitude]

\* Trends.__getitem__ with a slice of step 1 (0-based bounds, <<>> for None);
\* called on a non-empty Trends only.
trends_getslice(trends, start, stop) ==
    LET length == Len(trends)
        start0 == IF start = <<>> THEN 0 ELSE start[1]
        stop0  == IF stop = <<>> THEN length ELSE stop[1]
        start1 == start0 % length
        stop1  == IF stop0 # length THEN stop0 % length ELSE stop0
    IN  [k \in 1..Max2(stop1 - start1, 0) |-> trends[start1 + k]]

DelayedWhateverTheTimeframe(body, trends, p, delay_tolerance, testing_mode) ==
    LET latest == trends_getslice(trends, <<-body.length>>, <<>>)
        delayed == trends_getslice(trends, <<-body.length - 1>>, <<-1>>)
    IN  IF Len(trends) >= body.length /\ body_match_slice(body, latest, p, testing_mode)
        THEN <<extract_info(body, latest)>>
        ELSE IF /\ delay_tolerance # 0
                /\ Len(trends) - 1 >= body.length
                /\ body_match_slice(body, delayed, p, testing_mode)
        THEN <<extract_info(body, delayed)>>
        ELSE <<>>

\* _PatternBody.match: <<>> for None, else <<_PatternMatchBody>>.
body_match(body, trends, p, delay_tolerance, testing_mode) ==
    LET latest == trends_getslice(trends, <<-body.length>>, <<>>)
        delayed == trends_getslice(trends, <<-body.length - 1>>, <<-1>>)
    IN  IF Len(trends) >= body.length /\ body_match_slice(body, latest, p, testing_mode)
        THEN <<extract_info(body, latest)>>
        ELSE IF /\ delay_tolerance # 0
                /\ Len(trends) - 1 >= body.length
                /\ get_timeframe(trends[Len(trends)]) <= delay_tolerance
                /\ body_match_slice(body, delayed, p, testing_mode)
        THEN <<extract_info(body, delayed)>>
        ELSE <<>>

\* class Pattern(Enum), in definition order.
Pattern ==
    << [name |-> "DUMP",         value |-> PatternBody(<<PatternUnit(-8, 0, 30)>>, 0)],
       [name |-> "DOWNTREND",    value |-> PatternBody(<<PatternUnit(-30, 0, 120)>>, 100000)],
       [name |-> "REVERSAL",     value |-> PatternBody(<<PatternUnit(-30, 120, 0),
                                                         PatternUnit(10, 30, 0)>>, 100000)],
       [name |-> "PUMP",         value |-> PatternBody(<<PatternUnit(50, 0, 60)>>, 100000)],
       [name |-> "UPTREND",      value |-> PatternBody(<<PatternUnit(20, 120, 0)>>, 100000)],
       [name |-> "SLOW_UPTREND", value |-> PatternBody(<<PatternUnit(10, 720, 0)>>, 100000)] >>

\* network/pool_with_chart.py: the same table with the earlier DUMP unit.
NetworkPattern ==
    [k \in 1..Len(Pattern) |->
        IF k = 1 THEN [name |-> "DUMP", value |-> PatternBody(<<PatternUnit(-15, 0, 60)>>, 0)]
        ELSE Pattern[k]]

\* PatternMatch(pattern, body)
PatternMatch(pattern, body) ==
    [pattern |-> pattern.name,
     start_timestamp |-> body.start_timestamp,
     end_timestamp |-> body.end_timestamp,
     significant |-> body.significant,
     magnitude |-> body.magnitude]

\* Pattern.match_any: the matches in the order the generator yields them, the
\* patterns in the outer loop and the views in the inner one.
match_any(patterns, ticks, p, reverse_trends_views_traversal, delay_tolerance, testing_mode) ==
    LET generated == generate_all(ticks)
        views == IF reverse_trends_views_traversal THEN Reverse(generated) ELSE generated
        V == Len(views)
        tried == [n \in 1..(Len(patterns) * V) |->
                    LET pattern == patterns[((n - 1) \div V) + 1]
                        trends == views[((n - 1) % V) + 1]
                        body == IF Len(trends) = 0 THEN <<>>
                                ELSE body_match(pattern.value, trends, p, delay_tolerance,
                                                testing_mode)
                    IN  IF body = <<>> THEN <<>> ELSE <<PatternMatch(pattern, body[1])>>]
        yielded == SelectSeq(tried, LAMBDA m : m # <<>>)
    IN  [k \in 1..Len(yielded) |-> yielded[k][1]]

----------------------------------------------------------------------------
(* Chart and the feeds that update it *)

\* A GeckoTerminal candlestick as get_ohlcv hands it on.
Candlestick(timestamp, open, close, volume) ==
    [timestamp |-> timestamp, open |-> open, close |-> close, volume |-> volume]

\* geckoterminal_candlesticks_to_ticks, TIMESTAMP_UNIT being one minute.
RECURSIVE CandlesticksToTicks(_, _)
CandlesticksToTicks(ticks, candlesticks) ==
    IF Len(candlesticks) = 0 THEN ticks
    ELSE LET c == Head(candlesticks)
             opened == IF Len(ticks) = 0 \/ c.timestamp > ticks[Len(ticks)].timestamp + 1
                       THEN Append(ticks, CompleteTick(c.timestamp - 1, c.open, 0))
                       ELSE ticks
         IN  CandlesticksToTicks(Append(opened, CompleteTick(c.timestamp, c.close, c.volume)),
                                 Tail(candlesticks))

geckoterminal_candlesticks_to_ticks(candlesticks) == CandlesticksToTicks(<<>>, candlesticks)

\* Chart.__init__
Chart(max_ticks, repetition_reset_cooldown_hours) ==
    [ticks |-> CircularList(max_ticks),
     previous_pattern_end_timestamp |-> <<>>,
     repetition_reset_cooldown |-> 60 * repetition_reset_cooldown_hours]

SetMin(S) == CHOOSE x \in S : \A y \in S : x <= y

ChartUpdateAppendOnly(ticks, new_ticks, is_tick) == extend(ticks, new_ticks)

UpdateWithoutLookingForComplete(ticks, new_ticks, is_tick) ==
    extend(pop(ticks, Cardinality({i \in 1..ticks.size :
                                     iter(ticks)[i].timestamp >= new_ticks[1].timestamp})),
           new_ticks \o SelectSeq(iter(ticks), LAMBDA x :
                                    x.timestamp > new_ticks[Len(new_ticks)].timestamp))

UpdateKeepingTheFirstMinute(ticks, new_ticks, is_tick) ==
    extend(pop(ticks, Cardinality({i \in 1..ticks.size :
                                     iter(ticks)[i].timestamp > new_ticks[1].timestamp})),
           new_ticks \o SelectSeq(iter(ticks), LAMBDA x :
                                    x.timestamp > new_ticks[Len(new_ticks)].timestamp))

UpdateWithoutSavingNewer(ticks, new_ticks, is_tick) ==
    extend(pop(ticks, Cardinality({i \in 1..ticks.size :
                                     iter(ticks)[i].timestamp >= new_ticks[1].timestamp})),
           new_ticks)

\* Chart.update on self.ticks; is_tick tells a single Tick from a list of ticks.
chart_update(ticks, new_ticks, is_tick) ==
    LET held == iter(ticks)
    IN  IF /\ is_tick
           /\ new_ticks[1].kind = "Incomplete"
           /\ \E i \in 1..Len(held) :
                held[i].kind = "Complete" /\ held[i].timestamp = new_ticks[1].timestamp
        THEN ticks
        ELSE IF Len(new_ticks) = 0 THEN ticks
        ELSE LET late == {i \in 1..Len(held) : held[i].timestamp >= new_ticks[1].timestamp}
             IN  IF late = {} THEN extend(ticks, new_ticks)
                 ELSE LET discard_index == SetMin(late) - 1
                          discarded_ticks == getslice(ticks, <<discard_index>>, <<>>)
                          popped == pop(ticks, Len(discarded_ticks))
                          after == {i \in 1..Len(discarded_ticks) :
                                      discarded_ticks[i].timestamp
                                          > new_ticks[Len(new_ticks)].timestamp}
                          extended == IF after = {} THEN new_ticks
                                      ELSE new_ticks \o SubSeq(discarded_ticks, SetMin(after),
                                                               Len(discarded_ticks))
                      IN  extend(popped, extended)

IsRepetitionByEnd(ch, match, only_new, t) ==
    /\ only_new
    /\ ch.previous_pattern_end_timestamp # <<>>
    /\ match.end_timestamp < ch.previous_pattern_end_timestamp[1]
    /\ \/ ch.repetition_reset_cooldown = 0
       \/ t - ch.previous_pattern_end_timestamp[1] < ch.repetition_reset_cooldown

IsRepetitionWhateverTheCooldown(ch, match, only_new, t) ==
    /\ only_new
    /\ ch.previous_pattern_end_timestamp # <<>>
    /\ match.start_timestamp < ch.previous_pattern_end_timestamp[1]

\* The test of Chart.get_pattern that passes a match over.
IsRepetition(ch, match, only_new, t) ==
    /\ only_new
    /\ ch.previous_pattern_end_timestamp # <<>>
    /\ match.start_timestamp < ch.previous_pattern_end_timestamp[1]
    /\ \/ ch.repetition_reset_cooldown = 0
       \/ t - ch.previous_pattern_end_timestamp[1] < ch.repetition_reset_cooldown

\* Chart.get_pattern, given what Pattern.match_any(self.ticks, self.pool,
\* reverse_trends_views_traversal=True) yields: the chart it leaves and the match
\* it returns (<<>> for None).
get_pattern(ch, matches, only_new, t) ==
    LET fresh == SelectSeq(matches, LAMBDA m : ~IsRepetition(ch, m, only_new, t))
    IN  IF Len(fresh) = 0 THEN [chart |-> ch, match |-> <<>>]
        ELSE [chart |-> [ch EXCEPT !.previous_pattern_end_timestamp = <<fresh[1].end_timestamp>>],
              match |-> <<fresh[1]>>]

----------------------------------------------------------------------------
(* The compressor applied to bounded inputs *)

MaxTicks == 5                 \* longest tick sequence compressed
Prices == {70, 100, 140}      \* tick prices
Gaps == {1, 12}               \* minutes between consecutive ticks

\* Tick sequences with strictly increasing timestamps, as Chart.update keeps them.
RECURSIVE TicksFrom(_, _, _)
TicksFrom(prices, gaps, t) ==
    IF Len(prices) = 0 THEN <<>>
    ELSE <<IncompleteTick(t, Head(prices))>> \o
         (IF Len(gaps) = 0 THEN <<>> ELSE TicksFrom(Tail(prices), Tail(gaps), t + Head(gaps)))

TickSequences(n) ==
    UNION {{TicksFrom(ps, gs, 0) : ps \in [1..k -> Prices], gs \in [1..(k - 1) -> Gaps]} : k \in 1..n}
        \cup {<<>>}

CompressInit ==
    /\ ticks_in \in TickSequences(MaxTicks)
    /\ reverse_traversal \in BOOLEAN
    /\ trends_views = <<>>
    /\ trends_view = 0
    /\ segments_out = <<>>
    /\ recompressed = <<>>
    /\ pc = "input"

CompressIdle ==
    /\ ticks_in = <<>>
    /\ reverse_traversal = FALSE
    /\ trends_views = <<>>
    /\ trends_view = 0
    /\ segments_out = <<>>
    /\ recompressed = <<>>
    /\ pc = "idle"

\* TrendsView.generate_all(ticks)
GenerateAll ==
    /\ pc = "input"
    /\ trends_views' = generate_all(ticks_in)
    /\ pc' = "views"
    /\ UNCHANGED <<ticks_in, reverse_traversal, trends_view, segments_out, recompressed>>

\* trends_view.generate_trends(ticks): one view built straight from the ticks.
GenerateTrends ==
    /\ pc = "input"
    /\ \E k \in 1..Len(TrendsView) :
        /\ trends_view' = k
        /\ trends_views' = <<initialize(RawTrends(ticks_in), TrendsView[k])>>
    /\ pc' = "trends"
    /\ UNCHANGED <<ticks_in, reverse_traversal, segments_out, recompressed>>

\* SegmentsViews.generate_all(ticks, reverse_traversal): its one view, DEFAULT.
GenerateSegments ==
    /\ pc = "input"
    /\ \E built \in {SegmentsOnBuffer(extend(CircularList(MaxTicks), ticks_in),
                                      reverse_traversal)} :
          /\ segments_out' = built.segments
          /\ pc' = IF built.raised = "none" THEN "segments" ELSE "raised"
    /\ UNCHANGED <<ticks_in, reverse_traversal, trends_views, trends_view, recompressed>>

\* The uncapped output compressed once more: TrendsView.GLOBAL.generate_trends on a
\* Trends, Segments(...) on a Segments with either traversal.
Recompress ==
    /\ \/ /\ pc = "views"
          /\ recompressed' = initialize(trends_views[Len(TrendsView)], GLOBAL)
          /\ pc' = "views_again"
       \/ /\ pc = "trends"
          /\ trends_view = Len(TrendsView)
          /\ recompressed' = initialize(trends_views[1], GLOBAL)
          /\ pc' = "trends_again"
       \/ /\ pc = "segments"
          /\ \E reverse \in BOOLEAN : recompressed' = SegmentsInit(segments_out, reverse)
          /\ pc' = "segments_again"
    /\ UNCHANGED <<ticks_in, reverse_traversal, trends_views, trends_view, segments_out>>

----------------------------------------------------------------------------
(* The matcher and the chart applied to bounded inputs *)

Config(delay_tolerance, repetition_reset_cooldown, max_ticks, testing_mode) ==
    [delay_tolerance |-> delay_tolerance,
     repetition_reset_cooldown |-> repetition_reset_cooldown,
     max_ticks |-> max_ticks,
     testing_mode |-> testing_mode]

NoUnitRet == [op |-> "none", unit |-> PatternUnit(0, 0, 0), trend |-> Trend(<<1, 1>>, 0, 0),
              value |-> FALSE]
UnitInput(unit, trend) == [op |-> "input", unit |-> unit, trend |-> trend, value |-> FALSE]
NoMatchRet == [table |-> "none", views |-> <<>>, matches |-> <<>>]

PatternIdle ==
    /\ config = Config(0, 0, 1, FALSE)
    /\ pool = <<>>
    /\ match_ret = NoMatchRet
    /\ unit_ret = NoUnitRet

ChartIdle ==
    /\ chart = Chart(1, 0)
    /\ calls = <<>>

\* Pools: no pool, a pool without liquidity, and liquidities below, at and above base.
Liquidities == {0, 20000, 60000, 100000, 250000}
Pools == {<<>>} \cup {<<l>> : l \in Liquidities}

\* The units of both Pattern tables.
Units ==
    UNION {{table[k].value.units[j] : j \in 1..Len(table[k].value.units)} :
              k \in 1..Len(Pattern), table \in {Pattern, NetworkPattern}}

\* Trends drawn for a unit: from a price of 100 to each of these, over these timeframes.
EndPrices == {40, 69, 70, 71, 91, 92, 93, 94, 100, 109, 110, 111, 120, 130, 149, 150, 151, 200}
Timeframes == {1, 29, 30, 31, 59, 60, 61, 119, 120, 121, 719, 720, 721}

UnitInit ==
    /\ config \in {Config(0, 0, 1, testing) : testing \in BOOLEAN}
    /\ pool \in Pools
    /\ match_ret = NoMatchRet
    /\ unit_ret \in {UnitInput(unit, Trend(ChangeBetween(100, price), 0, timeframe)) :
                        unit \in Units, price \in EndPrices, timeframe \in Timeframes}

\* PatternUnit.match(trend, pool)
UnitMatch ==
    /\ unit_ret.op = "input"
    /\ unit_ret' = [unit_ret EXCEPT
                        !.op = "match",
                        !.value = unit_match(unit_ret.unit, unit_ret.trend, pool,
                                             config.testing_mode)]
    /\ UNCHANGED <<config, pool, match_ret>>

MaxScenarioTicks == 4         \* longest tick sequence handed to Pattern.match_any
ScenarioPools == {<<>>, <<20000>>, <<60000>>}

MatchInit ==
    /\ ticks_in \in TickSequences(MaxScenarioTicks)
    /\ reverse_traversal \in BOOLEAN
    /\ trends_views = <<>>
    /\ trends_view = 0
    /\ segments_out = <<>>
    /\ recompressed = <<>>
    /\ pc = "input"
    /\ config \in {Config(delay, 0, 1, testing) : delay \in {0, 1}, testing \in BOOLEAN}
    /\ pool \in ScenarioPools
    /\ match_ret = NoMatchRet
    /\ unit_ret = NoUnitRet

\* Pattern.match_any(ticks, pool, reverse_trends_views_traversal) of network_and_pools
MatchAny ==
    /\ pc = "input"
    /\ match_ret' = [table |-> "network_and_pools",
                     views |-> generate_all(ticks_in),
                     matches |-> match_any(Pattern, ticks_in, pool, reverse_traversal,
                                           config.delay_tolerance, config.testing_mode)]
    /\ pc' = "matched"
    /\ UNCHANGED <<ticks_in, reverse_traversal, trends_views, trends_view, segments_out,
                   recompressed, config, pool, unit_ret>>

\* Pattern.match_any(ticks, pool, reverse_trends_views_traversal) of network
MatchAnyNetwork ==
    /\ pc = "input"
    /\ match_ret' = [table |-> "network",
                     views |-> generate_all(ticks_in),
                     matches |-> match_any(NetworkPattern, ticks_in, pool, reverse_traversal,
                                           config.delay_tolerance, config.testing_mode)]
    /\ pc' = "matched"
    /\ UNCHANGED <<ticks_in, reverse_traversal, trends_views, trends_view, segments_out,
                   recompressed, config, pool, unit_ret>>

MaxChartTicks == 3            \* the larger of the two [Chart] max_ticks tried
MaxMinutes == 2               \* the minute up to which updates arrive
MaxHours == 1                 \* whole hours the clock may jump
MaxDelay == 1                 \* minutes a live update's timestamp lags the clock
MaxCandles == 2               \* candlesticks in one historical batch
ChartPrices == {70, 140}

ChartInit ==
    /\ config \in {Config(delay, cooldown, max_ticks, FALSE) :
                      delay \in {0, 1}, cooldown \in {0, 1},
                      max_ticks \in {MaxChartTicks - 1, MaxChartTicks}}
    /\ pool = <<ScaleBase>>
    /\ chart = Chart(config.max_ticks, config.repetition_reset_cooldown)
    /\ calls = <<>>
    /\ now = 0

\* The ohlcv_list of one response: newest first, one-minute candlesticks no later
\* than the request.
OhlcvLists(t) ==
    LET stamps == {x \in (t - MaxCandles)..t : x >= 1}
        candles == {Candlestick(x, o, c, 1) : x \in stamps, o \in ChartPrices, c \in ChartPrices}
    IN  {l \in UNION {[1..k -> candles] : k \in 1..MaxCandles} :
            \A i \in 1..(Len(l) - 1) : l[i].timestamp > l[i + 1].timestamp}

\* Pools.update: the live price becomes an IncompleteTick at the floored
\* timestamp_of_update, given to the chart of the pool object passed in (here the
\* chart at hand; registry_update tells which object the registry keeps).
PoolsUpdate ==
    \E price \in ChartPrices, delay \in 0..MaxDelay :
        /\ now <= MaxMinutes
        /\ now - delay >= 0
        /\ chart' = [chart EXCEPT
                        !.ticks = chart_update(@, <<IncompleteTick(now - delay, price)>>, TRUE)]
        /\ calls' = <<>>
        /\ UNCHANGED now

\* _update_charts_with_historical_data_via_geckoterminal for this pool; get_ohlcv
\* reverses the list ([::-1]) before the conversion.
UpdateChartWithHistoricalData ==
    \E ohlcv \in OhlcvLists(now) :
        /\ now <= MaxMinutes
        /\ chart' = [chart EXCEPT
                        !.ticks = chart_update(@, geckoterminal_candlesticks_to_ticks(
                                                      Reverse(ohlcv)), FALSE)]
        /\ calls' = <<>>
        /\ UNCHANGED now

\* pool.chart.get_pattern(only_new)
GetPattern ==
    \E only_new \in BOOLEAN, held \in {iter(chart.ticks)} :
        \E matches \in {match_any(Pattern, held, pool, TRUE, config.delay_tolerance,
                                  config.testing_mode)} :
            \E got \in {get_pattern(chart, matches, only_new, now)} :
                LET call == [only_new |-> only_new,
                             match |-> got.match,
                             had_previous |-> chart.previous_pattern_end_timestamp # <<>>,
                             elapsed |-> /\ chart.previous_pattern_end_timestamp # <<>>
                                         /\ chart.repetition_reset_cooldown # 0
                                         /\ now - chart.previous_pattern_end_timestamp[1]
                                                >= chart.repetition_reset_cooldown,
                             matching |-> Len(matches),
                             previous |-> chart.previous_pattern_end_timestamp,
                             at |-> now,
                             candidates |-> matches]
                IN  /\ chart' = got.chart
                    /\ calls' = IF Len(calls) = 2 THEN <<calls[2], call>>
                                 ELSE Append(calls, call)
                    /\ UNCHANGED now

MaxBodyTicks == 4             \* ticks of a chart a body is matched against
BodyGaps == {1, 31, 130}      \* minutes between consecutive ticks
BodyTolerances == {0, 1, 31}  \* [Patterns] delay_tolerance, 0 for none

BodyPools == {<<>>, <<60000>>}  \* no pool, and one with liquidity below base

BodyTickSequences ==
    UNION {{TicksFrom(ps, gs, 0) : ps \in [1..k -> Prices], gs \in [1..(k - 1) -> BodyGaps]} :
              k \in 1..MaxBodyTicks}

\* The bodies _PatternBody.match is applied to: those of both Pattern tables, a
\* one-unit body with a threshold of 150 percent, and a two-unit body whose second
\* unit has the larger magnitude.
Bodies ==
    {table[k].value : k \in 1..Len(Pattern), table \in {Pattern, NetworkPattern}}
        \cup {PatternBody(<<PatternUnit(-8, 0, 30)>>, 150),
              PatternBody(<<PatternUnit(10, 0, 0), PatternUnit(-20, 0, 0)>>, 150)}

BodyInit ==
    /\ ticks_in \in BodyTickSequences
    /\ reverse_traversal = FALSE
    /\ trends_views = <<>>
    /\ trends_view = 0
    /\ segments_out = <<>>
    /\ recompressed = <<>>
    /\ pc = "input"
    /\ config \in {Config(delay, 0, 1, FALSE) : delay \in BodyTolerances}
    /\ pool \in BodyPools
    /\ match_ret = NoMatchRet
    /\ unit_ret = NoUnitRet

\* self.value.match(trends, pool, delay_tolerance) for one of the views
\* TrendsView.generate_all(ticks) returned
BodyMatch ==
    /\ pc = "views"
    /\ \E body \in Bodies, k \in 1..Len(trends_views) :
        /\ trends_view' = k
        /\ match_ret' = [table |-> "body",
                         body |-> body,
                         trends |-> trends_views[k],
                         matches |-> body_match(body, trends_views[k], pool,
                                                config.delay_tolerance, config.testing_mode)]
    /\ pc' = "matched"
    /\ UNCHANGED <<ticks_in, reverse_traversal, trends_views, segments_out, recompressed,
                   config, pool, unit_ret>>

MaxCycles == 3                \* detection cycles in a row
MaxCycleTicks == 4            \* [Chart] max_ticks during the cycles
CyclePrices == {35, 70, 140}
CycleGaps == {1, 12, 60}      \* minutes from one cycle to the next
CycleOpen == 70               \* opening price of a cycle's candlestick
CycleClose == 35              \* and its closing price

CyclesInit ==
    /\ config \in {Config(delay, cooldown, MaxCycleTicks, FALSE) :
                      delay \in {0, 1}, cooldown \in {0, 1}}
    /\ pool = <<ScaleBase>>
    /\ chart = Chart(config.max_ticks, config.repetition_reset_cooldown)
    /\ calls = <<>>
    /\ now = 0

\* The ohlcv_list of a cycle in which the pool got a request: one candlestick of
\* the current minute, or none when the pool was not among the priority pools.
CycleOhlcvLists(t) ==
    {<<>>, <<Candlestick(t, CycleOpen, CycleClose, 1)>>}

\* One cycle of update_via_api as one chart sees it: the live tick when the price
\* moved or the chart is empty, the historical batch, then the callback's
\* get_pattern(only_new=True); the next cycle starts gap minutes later.
DetectionCycle ==
    \E gap \in {g \in CycleGaps : Len(calls) < MaxCycles}, price \in CyclePrices :
        \E ohlcv \in CycleOhlcvLists(now + gap) :
            LET t == now + gap
                moved == Len(calls) = 0 \/ calls[Len(calls)].price # price
                live == IF moved \/ chart.ticks.size = 0
                        THEN chart_update(chart.ticks, <<IncompleteTick(t, price)>>, TRUE)
                        ELSE chart.ticks
            IN  \E updated \in {IF Len(ohlcv) = 0 THEN live
                                 ELSE chart_update(live, geckoterminal_candlesticks_to_ticks(
                                                            Reverse(ohlcv)), FALSE)} :
                  \E held \in {iter(updated)} :
                    \E matches \in {match_any(Pattern, held, pool, TRUE, config.delay_tolerance,
                                              config.testing_mode)} :
                      \E got \in {get_pattern([chart EXCEPT !.ticks = updated], matches,
                                              TRUE, t)} :
                        /\ now' = t
                        /\ chart' = got.chart
                        /\ calls' = Append(calls,
                                           [only_new |-> TRUE,
                                            match |-> got.match,
                                            price |-> price,
                                            previous |-> chart.previous_pattern_end_timestamp,
                                            at |-> t,
                                            candidates |-> matches])

MaxChartUpdates == 3          \* Chart.update calls in a row
MaxStamp == 3                 \* latest minute a tick is stamped with
UpdateCapacities == {2, 4}    \* [Chart] max_ticks tried

UpdatesInit ==
    /\ config \in {Config(0, 0, max_ticks, FALSE) : max_ticks \in UpdateCapacities}
    /\ pool = <<ScaleBase>>
    /\ chart = Chart(config.max_ticks, config.repetition_reset_cooldown)
    /\ calls = <<>>
    /\ now = 0

\* The call record of a Chart.update: its argument, the buffer it found and how
\* many calls were made so far.
UpdateCall(new_ticks, is_tick) ==
    <<[is_tick |-> is_tick,
       new_ticks |-> new_ticks,
       before |-> chart.ticks,
       n |-> IF Len(calls) = 0 THEN 1 ELSE calls[1].n + 1]>>

UpdatesLeft == Len(calls) = 0 \/ calls[1].n < MaxChartUpdates

\* Chart.update(IncompleteTick(timestamp, price))
ChartUpdateTick ==
    \E t \in {x \in 0..MaxStamp : UpdatesLeft}, price \in ChartPrices :
        /\ chart' = [chart EXCEPT
                        !.ticks = chart_update(@, <<IncompleteTick(t, price)>>, TRUE)]
        /\ calls' = UpdateCall(<<IncompleteTick(t, price)>>, TRUE)
        /\ UNCHANGED now

\* Chart.update(geckoterminal_candlesticks_to_ticks(ohlcv_list[::-1]))
ChartUpdateBatch ==
    \E ohlcv \in {l \in OhlcvLists(MaxStamp) : UpdatesLeft} :
        \E new_ticks \in {geckoterminal_candlesticks_to_ticks(Reverse(ohlcv))} :
            /\ chart' = [chart EXCEPT !.ticks = chart_update(@, new_ticks, FALSE)]
            /\ calls' = UpdateCall(new_ticks, FALSE)
            /\ UNCHANGED now

\* Time passes: a minute, or an hour after which nothing more arrives.
ClockTick ==
    /\ \/ now < MaxMinutes /\ now' = now + 1
       \/ now \div 60 < MaxHours /\ now' = now + 60
    /\ calls' = <<>>
    /\ UNCHANGED chart

----------------------------------------------------------------------------
(* The pool registry: network_and_pools/pools.py *)

MaxUpdates == 4               \* calls made on the registry
MinLiquidity == 1             \* [Pools] min_liquidity
MinVolume == 1                \* [Pools] min_volume
PoolAddresses == {"EQ1", "EQ2", "EQ3"}
PoolVolumes == {0, 1, 2, 3}
PoolLiquidities == {1}

\* What an address reports: pools EQ1 and EQ2 trade the same pair on two DEXes,
\* EQ3 trades another pair on the DEX of EQ2.
BaseTokenOf(address) == IF address = "EQ3" THEN "NOT" ELSE "JET"
QuoteTokenOf(address) == "TON"
DexOf(address) == IF address = "EQ1" THEN "dedust" ELSE "stonfi"

MaxObjects == 20              \* Token and DEX objects alive at a time
SecondsBetweenUpdates == 90   \* from one call on the registry to the next
Snapshots == {1, 2}           \* what the screener reports: names and price

\* A Pool as dex_screener_pools_to_pools builds it: a new object with a new, empty
\* Chart and new Token and DEX objects, which refs points to once they are
\* allocated; snapshot is the ticker and name those objects carry.
NetworkPool(address, volume, liquidity) ==
    [address |-> address,
     base_token |-> BaseTokenOf(address),
     quote_token |-> QuoteTokenOf(address),
     dex |-> DexOf(address),
     price_native |-> 1,
     volume |-> volume,
     liquidity |-> liquidity,
     snapshot |-> 1,
     refs |-> [base_token |-> 0, quote_token |-> 0, dex |-> 0],
     chart |-> <<>>]

IncomingPools ==
    {NetworkPool(a, v, l) : a \in PoolAddresses, v \in PoolVolumes, l \in PoolLiquidities}

\* The same pools as two snapshots report them, all passing the filter.
SnapshotPools ==
    {[NetworkPool(a, v, l) EXCEPT !.snapshot = s, !.price_native = s] :
        a \in PoolAddresses, v \in {MinVolume, MinVolume + 1}, l \in PoolLiquidities,
        s \in Snapshots}

\* No Token or DEX object yet.
EmptyHeap == [i \in {} |-> 0]

\* Pools.__init__; heap holds the Token and DEX objects by identity, token_refs and
\* dex_refs are self.tokens and self.dexes, tokens and dexes their keys.
PoolsRegistry(with_filter, key) ==
    [pools |-> {}, tokens |-> {}, dexes |-> {},
     token_refs |-> {}, dex_refs |-> {}, heap |-> EmptyHeap,
     pool_filter |-> with_filter,
     repeated_pool_filter_key |-> key]

\* the pool_filter main.py passes
pool_filter(p) == p.liquidity >= MinLiquidity /\ p.volume >= MinVolume

KeyByLiquidity(p) == p.liquidity

\* repeated_pool_filter_key = volume
repeated_pool_filter_key(p) == p.volume

HasSameTokensOnSameDex(p, q) ==
    /\ p.address # q.address
    /\ p.base_token = q.base_token
    /\ p.quote_token = q.quote_token
    /\ p.dex = q.dex

\* "not literally the same pool, but a pool with same tokens"
HasSameTokens(p, q) ==
    /\ p.address # q.address
    /\ p.base_token = q.base_token
    /\ p.quote_token = q.quote_token

\* The objects pools and sets of the registry point to.
Referenced(reg) ==
    reg.token_refs \cup reg.dex_refs
        \cup UNION {{q.refs.base_token, q.refs.quote_token, q.refs.dex} : q \in reg.pools}

\* The objects of an incoming pool, at the lowest free identities.
allocate(reg, p) ==
    LET free == (1..MaxObjects) \ Referenced(reg)
        base == SetMin(free)
        quote == SetMin(free \ {base})
        dex == SetMin(free \ {base, quote})
        created == base :> [key |-> p.base_token, name |-> p.snapshot]
                     @@ quote :> [key |-> p.quote_token, name |-> p.snapshot]
                     @@ dex :> [key |-> p.dex, name |-> p.snapshot]
    IN  [reg |-> [reg EXCEPT !.heap = created @@ @],
         pool |-> [p EXCEPT !.refs = [base_token |-> base, quote_token |-> quote,
                                      dex |-> dex]]]

\* Objects nothing points to any more are dropped, and the key sets follow the
\* object sets.
collect(reg) ==
    [reg EXCEPT !.heap = [i \in Referenced(reg) |-> reg.heap[i]],
                !.tokens = {reg.heap[i].key : i \in reg.token_refs},
                !.dexes = {reg.heap[i].key : i \in reg.dex_refs}]

\* set(objects): one object of each key.
SetOf(objects, heap) ==
    {chosen \in SUBSET objects :
        \A x \in objects : \E y \in chosen :
            /\ heap[y].key = heap[x].key
            /\ \A z \in chosen : heap[z].key = heap[y].key => z = y}

UpdatedButNotShared(st, role, set) ==
    LET own == st.pool.refs[role]
        found == {x \in st.reg[set] : st.reg.heap[x].key = st.reg.heap[own].key}
    IN  IF found # {}
        THEN LET x == CHOOSE x \in found : TRUE
             IN  [reg |-> [st.reg EXCEPT !.heap[x].name = st.reg.heap[own].name],
                  pool |-> st.pool]
        ELSE [reg |-> [st.reg EXCEPT ![set] = @ \cup {own}], pool |-> st.pool]

\* One branch of _ensure_consistent_token_and_dex_references: the object of the
\* set that equals the pool's is updated from it and replaces it in the pool, or
\* the pool's object joins the set.
ShareWithSet(st, role, set) ==
    LET own == st.pool.refs[role]
        found == {x \in st.reg[set] : st.reg.heap[x].key = st.reg.heap[own].key}
    IN  IF found # {}
        THEN LET x == CHOOSE x \in found : TRUE
             IN  [reg |-> [st.reg EXCEPT !.heap[x].name = st.reg.heap[own].name],
                  pool |-> [st.pool EXCEPT !.refs[role] = x]]
        ELSE [reg |-> [st.reg EXCEPT ![set] = @ \cup {own}], pool |-> st.pool]

\* Pools._ensure_consistent_token_and_dex_references: the registry and the pool
\* it leaves.
ensure_consistent_token_and_dex_references(reg, p) ==
    ShareWithSet(ShareWithSet(ShareWithSet([reg |-> reg, pool |-> p],
                                           "base_token", "token_refs"),
                              "quote_token", "token_refs"),
                 "dex", "dex_refs")

\* Pool.update(other) of network.py: the Token and DEX objects of self take the
\* names of other's, the figures are copied; the chart is not touched.
pool_update(heap, q, p) ==
    LET base == [heap EXCEPT ![q.refs.base_token].name = heap[p.refs.base_token].name]
        quote == [base EXCEPT ![q.refs.quote_token].name = base[p.refs.quote_token].name]
    IN  [heap |-> [quote EXCEPT ![q.refs.dex].name = quote[p.refs.dex].name],
         pool |-> [q EXCEPT !.price_native = p.price_native,
                            !.volume = p.volume,
                            !.liquidity = p.liquidity,
                            !.snapshot = p.snapshot]]

floor_timestamp_to_minutes(timestamp) == timestamp - (timestamp % 60)

\* Pools._update followed by the chart update of Pools.update: a stored pool takes
\* the incoming fields (Pool.update) and its chart is left alone, the tick going to
\* the incoming object's chart; a new pool is stored with the tick in its chart.
registry_update(reg, p, timestamp_of_update) ==
    LET stored == {q \in reg.pools : q.address = p.address}
        previous_price_native == {q.price_native : q \in stored}
        ticked == IF p.price_native \notin previous_price_native \/ p.chart = <<>>
                  THEN [p EXCEPT !.chart =
                            Append(@, IncompleteTick(
                                          floor_timestamp_to_minutes(timestamp_of_update),
                                          p.price_native))]
                  ELSE p
    IN  IF stored # {}
        THEN LET existing_pool == CHOOSE q \in stored : TRUE
                 updated == pool_update(reg.heap, existing_pool, p)
             IN  [reg EXCEPT !.pools = (@ \ {existing_pool}) \cup {updated.pool},
                             !.heap = updated.heap]
        ELSE [reg EXCEPT !.pools = @ \cup {ticked}]

\* Pools.update for one incoming pool: the registries it may leave, one for each
\* pool the scan of self.pools may find first, and whether the pool got as far as
\* _update.
update(reg, p, timestamp_of_update) ==
    LET merged(r) ==
            LET shared == ensure_consistent_token_and_dex_references(r, p)
            IN  [registry |-> collect(registry_update(shared.reg, shared.pool,
                                                      timestamp_of_update)),
                 stored |-> TRUE]
        skipped == [registry |-> collect(reg), stored |-> FALSE]
        rivals == {q \in reg.pools : HasSameTokens(q, p)}
    IN  IF reg.pool_filter /\ ~pool_filter(p) THEN {skipped}
        ELSE IF reg.repeated_pool_filter_key = "none" \/ rivals = {} THEN {merged(reg)}
        ELSE UNION {IF repeated_pool_filter_key(p) > repeated_pool_filter_key(existing_pool)
                    THEN {merged([reg EXCEPT !.pools = @ \ {existing_pool},
                                             !.dex_refs = dexes]) :
                             dexes \in SetOf({q.refs.dex : q \in reg.pools \ {existing_pool}},
                                             reg.heap)}
                    ELSE {skipped} : existing_pool \in rivals}

\* Pools.apply_filter: the registries it may leave, one for each way the rebuilt
\* sets may keep one of equal objects.
apply_filter(reg) ==
    IF reg.pools # {} /\ reg.pool_filter
    THEN LET kept == {q \in reg.pools : pool_filter(q)}
         IN  {collect([reg EXCEPT !.pools = kept, !.token_refs = tokens, !.dex_refs = dexes]) :
                 tokens \in SetOf({q.refs.base_token : q \in kept}
                                      \cup {q.refs.quote_token : q \in kept}, reg.heap),
                 dexes \in SetOf({q.refs.dex : q \in kept}, reg.heap)}
    ELSE {reg}

RegistryInit ==
    /\ registry \in {PoolsRegistry(with_filter, key) :
                        with_filter \in BOOLEAN, key \in {"none", "volume"}}
    /\ processed = <<>>

RegistryIdle ==
    /\ registry = PoolsRegistry(FALSE, "none")
    /\ processed = <<>>

\* Pools.update(pool, timestamp_of_update) with the pool drawn from a set
UpdateWith(incoming) ==
    \E p \in {x \in incoming : Len(processed) < MaxUpdates} :
        \E made \in {allocate(registry, p)} :
            \E after \in update(made.reg, made.pool,
                                SecondsBetweenUpdates * (Len(processed) + 1)) :
                /\ registry' = after.registry
                /\ processed' = Append(processed,
                                       [op |-> "update", pool |-> <<p>>,
                                        before |-> registry.pools,
                                        held |-> registry,
                                        stored |-> after.stored,
                                        at |-> SecondsBetweenUpdates * (Len(processed) + 1)])

\* Pools.update(pool)
Update == UpdateWith(IncomingPools)

\* Pools.update(pool) with what one of two snapshots reports
UpdateSnapshot == UpdateWith(SnapshotPools)

\* Pools.apply_filter()
ApplyFilter ==
    /\ Len(processed) < MaxUpdates
    /\ \E after \in apply_filter(registry) :
        /\ registry' = after
        /\ processed' = Append(processed, [op |-> "apply_filter", pool |-> <<>>,
                                           before |-> registry.pools,
                                           held |-> registry,
                                           stored |-> FALSE,
                                           at |-> SecondsBetweenUpdates * (Len(processed) + 1)])

----------------------------------------------------------------------------
(* The historical backfill: network_and_pools/pools_with_api.py *)

MaxBackfillCycles == 3        \* update cycles in a row
MaxAvailable == 3             \* most free slots the history API's limiter reports
Activities == {1, 2}          \* volume * abs(price_change.h1) of a pool
THERE_WAS_NO_UPDATE == -1     \* _THERE_WAS_NO_UPDATE

\* No backfill phase yet.
NoPhase ==
    [available |-> 0, activity |-> <<>>, before |-> <<>>, priority_list |-> <<>>,
     priority_pools |-> <<>>, requested |-> <<>>, raised |-> FALSE, error |-> "none"]

\* PoolsWithAPI.__init__ with the pools the registry tracks; cycles counts the
\* update_via_api calls made, those that raised included, least_available is the
\* fewest free slots a backfill phase found, and served maps a pool to the cycle
\* of its last backfill.
PoolsWithAPI(pools) ==
    [pools |-> pools, last_chart_update |-> <<>>, update_counter |-> 0, phase |-> NoPhase,
     cycles |-> 0, least_available |-> <<>>, served |-> <<>>]

\* What a request made inside update_via_api may raise (api.py, request_limits.py).
ApiErrors == {"RateLimitExceeded", "InternalServerError", "UnexpectedResponse"}

\* GeckoTerminalAPI.get_ohlcv(self, network, pool_address, timeframe=..., currency=...,
\* before_timestamp=None): the parameters without a default, and all of them.
get_ohlcv_required == {"network", "pool_address"}
get_ohlcv_parameters == {"network", "pool_address", "timeframe", "currency", "before_timestamp"}

\* The keywords _update_charts_with_historical_data_via_geckoterminal calls
\* get_ohlcv with.
backfill_keywords == {"network", "address", "timeframe", "currency"}

\* A call made with keywords alone binds when every required parameter is given
\* and every keyword names a parameter; otherwise the call raises TypeError before
\* the body of the function runs.
Binds(keywords, required, parameters) ==
    required \subseteq keywords /\ keywords \subseteq parameters

\* What one get_ohlcv call of the backfill may raise.
get_ohlcv_errors ==
    IF Binds(backfill_keywords, get_ohlcv_required, get_ohlcv_parameters)
    THEN ApiErrors \cup {"EmptyData"}
    ELSE {"TypeError"}

\* self.last_chart_update.get(x, _THERE_WAS_NO_UPDATE)
last_chart_update_get(last_chart_update, x) ==
    IF x \in DOMAIN last_chart_update THEN last_chart_update[x] ELSE THERE_WAS_NO_UPDATE

ByLastUpdateAlone(last_chart_update, activity, x, y) ==
    last_chart_update_get(last_chart_update, x) < last_chart_update_get(last_chart_update, y)

\* key=lambda t: (t[1], -t[2]): the key of x is below the key of y
PriorityBefore(last_chart_update, activity, x, y) ==
    LET x1 == last_chart_update_get(last_chart_update, x)
        y1 == last_chart_update_get(last_chart_update, y)
    IN  x1 < y1 \/ (x1 = y1 /\ -activity[x] < -activity[y])

\* priority_list after sort(): the stable sort leaves pools of equal keys in the
\* order the iteration over the set gave them, which may be any.
priority_lists(pools, last_chart_update, activity) ==
    {list \in [1..Cardinality(pools) -> pools] :
        /\ \A i, j \in DOMAIN list : i # j => list[i] # list[j]
        /\ \A i, j \in DOMAIN list :
              i < j => ~PriorityBefore(last_chart_update, activity, list[j], list[i])}

\* priority_list[:available]
priority_pools(priority_list, available) ==
    SubSeq(priority_list, 1, Min2(available, Len(priority_list)))

\* The loop of _update_charts_with_historical_data_via_geckoterminal with its
\* first `done` get_ohlcv calls answered: those pools are stamped with the counter.
stamp(last_chart_update, pools, done, update_counter) ==
    [x \in DOMAIN last_chart_update \cup {pools[k] : k \in 1..done} |->
        IF \E k \in 1..done : pools[k] = x THEN update_counter ELSE last_chart_update[x]]

\* How many get_ohlcv calls of a phase may be answered before one raises: any
\* number when the call binds, none when it does not.
AnsweredCalls(chosen) ==
    IF Binds(backfill_keywords, get_ohlcv_required, get_ohlcv_parameters)
    THEN 0..Len(chosen)
    ELSE {0}

BackfillInit ==
    backfill \in {PoolsWithAPI(pools) : pools \in SUBSET PoolAddresses \ {{}}}

BackfillIdle == backfill = PoolsWithAPI({})

\* update_via_api as the backfill sees it: the snapshot gives every pool its
\* volume and price change, the limiter reports its free slots, the priority pools
\* are requested in order, and the counter is incremented unless a get_ohlcv call
\* raised, which ends the cycle there.
BackfillCycle ==
    \E available \in {a \in 0..MaxAvailable : backfill.cycles < MaxBackfillCycles},
       activity \in [backfill.pools -> Activities] :
        \E priority_list \in priority_lists(backfill.pools, backfill.last_chart_update, activity) :
            \E chosen \in {priority_pools(priority_list, available)} :
                \E done \in AnsweredCalls(chosen), error \in get_ohlcv_errors \cup {"none"} :
                    /\ error = "none" <=> done = Len(chosen)
                    /\ backfill' =
                          [backfill EXCEPT
                              !.last_chart_update = stamp(@, chosen, done, backfill.update_counter),
                              !.update_counter = IF error # "none" THEN @ ELSE @ + 1,
                              !.cycles = @ + 1,
                              !.least_available =
                                  IF @ = <<>> THEN <<available>> ELSE <<Min2(@[1], available)>>,
                              !.served = [x \in DOMAIN @ \cup {chosen[k] : k \in 1..done} |->
                                             IF \E k \in 1..done : chosen[k] = x
                                             THEN backfill.cycles + 1 ELSE @[x]],
                              !.phase = [available |-> available,
                                         activity |-> activity,
                                         before |-> backfill.last_chart_update,
                                         priority_list |-> priority_list,
                                         priority_pools |-> chosen,
                                         requested |-> SubSeq(chosen, 1,
                                                              Min2(done + 1, Len(chosen))),
                                         raised |-> error # "none",
                                         error |-> error]]

----------------------------------------------------------------------------
(* The API client and its error cooldown: api/api.py, utils/time.py *)

\* Times are in sixteenths of a second, which makes main.py's cooldown of 0.9375 s
\* a whole number.
TicksPerSecond == 16
MaxResponses == 5             \* responses the upstream gives in all
Latency == 1                  \* from sending a request to reading its status
CallGaps == {TicksPerSecond, 21 * 60 * TicksPerSecond}   \* between two calls

\* Cooldown.__init__; auto_reset_after is 0 and last_timestamp <<>> for None.
Cooldown(cooldown, multiplier, within_time_period) ==
    [start_cooldown |-> cooldown,
     cooldown |-> cooldown,
     multiplier |-> multiplier,
     auto_reset_after |-> within_time_period,
     last_timestamp |-> <<>>]

\* main.py: Cooldown(Timedelta(seconds=0.9375), multiplier=2,
\* within_time_period=Timedelta(minutes=20))
request_error_cooldown == Cooldown(15, 2, 20 * 60 * TicksPerSecond)

\* The policies a client is built with: none, main.py's, and the same without
\* within_time_period.
CooldownPolicies == {<<>>, <<request_error_cooldown>>, <<Cooldown(15, 2, 0)>>}

ResetWhateverThePolicy(c, only_if_no_auto_reset) == [c EXCEPT !.cooldown = c.start_cooldown]

\* Cooldown.reset
cooldown_reset(c, only_if_no_auto_reset) ==
    IF only_if_no_auto_reset /\ c.auto_reset_after # 0 THEN c
    ELSE [c EXCEPT !.cooldown = c.start_cooldown]

\* Cooldown.get: the Cooldown it leaves; the value returned is its cooldown.
cooldown_get(c, t) ==
    IF /\ c.auto_reset_after # 0
       /\ c.last_timestamp # <<>>
       /\ t - c.last_timestamp[1] > c.auto_reset_after
    THEN [c EXCEPT !.cooldown = c.start_cooldown]
    ELSE c

\* Cooldown.make: the value returned and the Cooldown it leaves.
cooldown_make(c, t) ==
    LET got == cooldown_get(c, t)
    IN  [value |-> got.cooldown,
         cooldown |-> [got EXCEPT !.cooldown = @ * c.multiplier, !.last_timestamp = <<t>>]]

\* What the upstream may answer: status code and reason phrase.
Response(code, message) == [code |-> code, message |-> message]
Responses ==
    {Response(200, "OK"),
     Response(429, "Too Many Requests"),
     Response(500, "Internal Server Error"),
     Response(429, "Rate Limited"),
     Response(404, "Not Found")}

\* class Status(Enum) with get_message
Status ==
    {Response(200, "OK"),
     Response(429, "Too Many Requests"),
     Response(500, "Internal Server Error")}

\* Status.create_from(code, message): the status of that code and message, <<>>
\* for None.
create_from(code, message) ==
    IF Response(code, message) \in Status THEN <<code>> ELSE <<>>

\* API.__init__ as PoolsWithAPI calls it (raise_on_rate_limit is left False, so
\* mark_request_sending never raises); log keeps what each response led to.
API(request_error_cooldown_given) ==
    [error_cooldown |-> request_error_cooldown_given,
     now |-> 0,
     pc |-> "idle",
     due |-> 0,
     error |-> "none",
     log |-> <<>>]

NoApi == [pc |-> "none"]
ApiIdle == api = NoApi

ApiInit == api \in {API(policy) : policy \in CooldownPolicies}

Event(kind, response, wait) ==
    [kind |-> kind, response |-> response, at |-> api.now + Latency, wait |-> wait]

\* await self._get_json(...) is called, some time after the previous call ended.
GetJson ==
    \E gap \in {g \in CallGaps : Len(api.log) < MaxResponses} :
        /\ api.pc \in {"idle", "returned", "raised"}
        /\ api' = [api EXCEPT !.pc = "requesting", !.now = @ + gap, !.error = "none"]

\* The status and reason of the response are read and matched.
Respond ==
    \E response \in {r \in Responses : Len(api.log) < MaxResponses} :
        /\ api.pc = "requesting"
        /\ LET t == api.now + Latency
               status == create_from(response.code, response.message)
               retried == cooldown_make(api.error_cooldown[1], t)
               raises(error) == [api EXCEPT !.now = t, !.pc = "raised", !.error = error,
                                            !.log = Append(@, Event("raise", response, 0))]
           IN  api' =
                 IF status = <<200>>
                 THEN IF api.error_cooldown = <<>>
                      THEN raises("AttributeError")
                      ELSE [api EXCEPT !.now = t, !.pc = "returned",
                                       !.error_cooldown = <<cooldown_reset(@[1], TRUE)>>,
                                       !.log = Append(@, Event("ok", response, 0))]
                 ELSE IF status \in {<<429>>, <<500>>}
                 THEN IF api.error_cooldown # <<>>
                      THEN [api EXCEPT !.now = t, !.pc = "sleeping",
                                       !.due = t + retried.value,
                                       !.error_cooldown = <<retried.cooldown>>,
                                       !.log = Append(@, Event("wait", response,
                                                               retried.value))]
                      ELSE raises(IF status = <<429>> THEN "RateLimitExceeded"
                                  ELSE "InternalServerError")
                 ELSE raises("UnexpectedResponse")

\* sleep(...) returns and the loop sends the request again.
Wake ==
    /\ api.pc = "sleeping"
    /\ api' = [api EXCEPT !.now = api.due, !.pc = "requesting"]

----------------------------------------------------------------------------
(* The orchestrating loop: main.py, Application._run *)

\* The exceptions _run has an except clause for.
Handled == {"CancelledError", "NetworkError"}

\* Application before run(): nothing raised, sessions open.
Application == [pc |-> "created", error |-> "none", propagated |-> FALSE, closed |-> FALSE]

NoApplication == [pc |-> "none"]
AppIdle == app = NoApplication
ApplicationInit == app = Application

\* An exception reaches the try statement of _run: the loop is left, a matching
\* except clause logs it, the finally clause closes the sessions, and an exception
\* no clause matches goes on to Bot._run and asyncio's run.
leave(error) ==
    [pc |-> "ended", error |-> error, propagated |-> error \notin Handled, closed |-> TRUE]

\* await self.bot.set_description('Live'), the first statement of the try block.
Start ==
    /\ app.pc = "created"
    /\ \E raised \in BOOLEAN :
          app' = IF raised THEN leave("NetworkError") ELSE [app EXCEPT !.pc = "running"]

\* One iteration of `while True: await self.pools.update_via_api()`: a request of
\* the snapshot raises and the cycle ends before its backfill, or the backfill runs
\* and the cycle completes unless a get_ohlcv call raises.
RunCycle ==
    /\ app.pc = "running"
    /\ \/ \E error \in {e \in ApiErrors : backfill.cycles < MaxBackfillCycles} :
             /\ app' = leave(error)
             /\ backfill' = [backfill EXCEPT !.cycles = @ + 1, !.phase = NoPhase]
       \/ /\ BackfillCycle
          /\ app' = IF backfill'.phase.raised THEN leave(backfill'.phase.error) ELSE app

\* The task is cancelled while update_via_api is suspended.
Cancel ==
    /\ app.pc = "running"
    /\ app' = leave("CancelledError")

----------------------------------------------------------------------------
(* The compression loop, one iteration at a time *)

NoLoop == [pc |-> "none"]

IterationBackingUpOnRejection(trends, i, view) ==
    LET t1 == trends[i + 1]
        t2 == trends[i + 2]
        t3 == trends[i + 3]
    IN  IF is_codirectional_with(t1, t2) /\ are_within_limits(view, <<t1, t2>>)
        THEN [trends |-> replace_by_concatenation(trends, i, <<t1, t2>>), i |-> Max2(i - 2, 0)]
        ELSE IF is_codirectional_with(t1, t2)
        THEN [trends |-> trends, i |-> Max2(i - 2, 0)]
        ELSE IF is_codirectional_with(t2, t3) /\ are_within_limits(view, <<t2, t3>>)
        THEN [trends |-> replace_by_concatenation(trends, i + 1, <<t2, t3>>), i |-> Max2(i - 2, 0)]
        ELSE IF can_be_absorbed(t1, t2, t3) /\ are_within_limits(view, <<t1, t2, t3>>)
        THEN [trends |-> replace_by_concatenation(trends, i, <<t1, t2, t3>>), i |-> Max2(i - 2, 0)]
        ELSE [trends |-> trends, i |-> i + 1]

\* The body of `while i + 2 < len(self.trends)` in Trends.initialize, run once:
\* the deque and the index it leaves.
iteration(trends, i, view) ==
    LET t1 == trends[i + 1]
        t2 == trends[i + 2]
        t3 == trends[i + 3]
    IN  IF is_codirectional_with(t1, t2) /\ are_within_limits(view, <<t1, t2>>)
        THEN [trends |-> replace_by_concatenation(trends, i, <<t1, t2>>), i |-> Max2(i - 2, 0)]
        ELSE IF is_codirectional_with(t2, t3) /\ are_within_limits(view, <<t2, t3>>)
        THEN [trends |-> replace_by_concatenation(trends, i + 1, <<t2, t3>>), i |-> Max2(i - 2, 0)]
        ELSE IF can_be_absorbed(t1, t2, t3) /\ are_within_limits(view, <<t1, t2, t3>>)
        THEN [trends |-> replace_by_concatenation(trends, i, <<t1, t2, t3>>), i |-> Max2(i - 2, 0)]
        ELSE [trends |-> trends, i |-> i + 1]

\* The body of `while i + 2 < len(self.segments)` in Segments.__init__, run once.
segments_iteration(segments, i) ==
    LET s1 == segments[i + 1]
        s2 == segments[i + 2]
        s3 == segments[i + 3]
    IN  IF has_same_direction_as(s1, s2)
        THEN [trends |-> segments_replace_by_concatenation(segments, i, <<s1, s2>>),
              i |-> Max2(i - 2, 0)]
        ELSE IF has_same_direction_as(s2, s3)
        THEN [trends |-> segments_replace_by_concatenation(segments, i + 1, <<s2, s3>>),
              i |-> Max2(i - 2, 0)]
        ELSE IF segments_can_be_absorbed(s1, s2, s3)
        THEN [trends |-> segments_replace_by_concatenation(segments, i, <<s1, s2, s3>>),
              i |-> Max2(i - 2, 0)]
        ELSE [trends |-> segments, i |-> i + 1]

\* Whether the iteration at hand meets a same-direction pair that a cap rejects.
RejectedByCap(trends, i, view) ==
    \E k \in {i + 1, i + 2} :
        /\ is_codirectional_with(trends[k], trends[k + 1])
        /\ ~are_within_limits(view, <<trends[k], trends[k + 1]>>)

\* The loop as it stands after `self.trends.reverse()` and `i = 0`; view is an
\* index into TrendsView, or 0 for the Segments revision. merged and rejected
\* remember whether an iteration backed the index up from i >= 1 after a merge,
\* and whether one met a same-direction pair over the cap.
Loop(revision, ticks, view, reverse, deque) ==
    [pc |-> "scanning", revision |-> revision, ticks |-> ticks, view |-> view,
     first_view |-> view, reverse |-> reverse, trends |-> deque, i |-> 0, merged |-> FALSE, rejected |-> FALSE]

LoopIdle == loop = NoLoop

\* The inputs of the loop: the tick sequences that move between two price levels.
LoopPrices == {100, 140}
LoopInputs ==
    {ticks \in TickSequences(MaxTicks) : \A k \in 1..Len(ticks) : ticks[k].price \in LoopPrices}

LoopInit ==
    \E ticks \in LoopInputs :
        \/ \E k \in 1..Len(TrendsView) :
                loop = Loop("Trends", ticks, k, TRUE, Reverse(RawTrends(ticks)))
        \/ \E reverse \in BOOLEAN :
                loop = Loop("Segments", ticks, 0, reverse,
                            IF reverse THEN Reverse(RawSegments(ticks)) ELSE RawSegments(ticks))

\* One iteration of the while loop.
Iterate ==
    /\ loop.pc = "scanning"
    /\ loop.i + 2 < Len(loop.trends)
    /\ \E after \in {IF loop.revision = "Trends"
                     THEN iteration(loop.trends, loop.i, TrendsView[loop.view])
                     ELSE segments_iteration(loop.trends, loop.i)} :
          loop' = [loop EXCEPT !.trends = after.trends,
                               !.i = after.i,
                               !.merged = @ \/ (Len(after.trends) < Len(loop.trends) /\ loop.i >= 1),
                               !.rejected = @ \/ (loop.revision = "Trends"
                                    /\ RejectedByCap(loop.trends, loop.i, TrendsView[loop.view]))]

\* The loop condition fails: the trailing two-element check, then the final reverse
\* (kept for the next view, which reverses again).
Finish ==
    /\ loop.pc = "scanning"
    /\ ~(loop.i + 2 < Len(loop.trends))
    /\ loop' = [loop EXCEPT
            !.pc = "done",
            !.trends = IF loop.revision = "Trends"
                       THEN FinalPair([trends |-> loop.trends, i |-> loop.i], TrendsView[loop.view])
                       ELSE SegmentsFinalPair([segments |-> loop.trends, i |-> loop.i])]

\* TrendsView.generate_all hands the finished view to the next, coarser one.
NextView ==
    /\ loop.pc = "done"
    /\ loop.revision = "Trends"
    /\ loop.view < Len(TrendsView)
    /\ loop' = [loop EXCEPT !.pc = "scanning", !.view = @ + 1, !.i = 0]

----------------------------------------------------------------------------
(* The tasks of the asyncio event loop: the update cycle and a bot handler *)

MaxTaskCycles == 2   \* update cycles run in SpecTasks
MaxHandled == 2      \* callback queries served in SpecTasks

\* PoolsWithAPI.update_via_api as the statements that touch shared state or
\* suspend, in program order: the snapshot request, Pools.update evicting the
\* duplicate-pair loser and storing the winner, Chart.update dropping the
\* overlapping tail and splicing the batch in, apply_filter, a backfill request
\* and its Chart.update, the notification callback (get_pattern, then
\* send_message), and the closing sleep.
CycleProgram ==
    <<"get_pools", "mark_request_sending", "remove", "add", "pop", "extend", "apply_filter",
      "get_ohlcv", "mark_request_sending", "pop", "extend", "get_pattern", "send_message",
      "sleep">>

\* Application.serve_mute_button
HandlerProgram == <<"get_tokens", "answer", "mute_for", "edit_message_caption">>

\* The statements that are awaited.
AwaitStatements ==
    {"get_pools", "get_ohlcv", "send_message", "sleep", "answer", "edit_message_caption"}

SuspendsWhileUpdating(statement) == statement \in AwaitStatements \cup {"remove", "pop"}

\* Whether a statement hands control back to the event loop.
Suspends(statement) == statement \in AwaitStatements

NoTasks == [running |-> "off"]
TasksIdle == tasks = NoTasks

\* One pool of the pair is registered and its chart holds this minute's tick; the
\* update cycle is the only task and has not run yet.
Tasks ==
    [running |-> "none", cycle |-> 1, handler |-> 0, cycles |-> 0, handled |-> 0,
     pools |-> {0}, ticks |-> <<0>>, spliced |-> 0, requests |-> 0, minute |-> 0,
     seen |-> <<>>]

TasksInit == tasks = Tasks

\* What a statement of the update cycle does to the shared state: each snapshot
\* brings a rival of the registered pool with a higher volume, and a tick for the
\* current minute. spliced remembers the minute of the last tick spliced in.
Effect(t, statement) ==
    IF statement = "mark_request_sending" THEN [t EXCEPT !.requests = @ + 1]
    ELSE IF statement = "remove" THEN [t EXCEPT !.pools = {}]
    ELSE IF statement = "add" THEN [t EXCEPT !.pools = @ \cup {t.cycles + 1}]
    ELSE IF statement = "pop"
    THEN [t EXCEPT !.ticks = SelectSeq(@, LAMBDA ts : ts < t.minute)]
    ELSE IF statement = "extend"
    THEN [t EXCEPT !.ticks = Append(@, t.minute), !.spliced = t.minute]
    ELSE IF statement = "get_tokens"
    THEN [t EXCEPT !.seen = <<[pools |-> t.pools, ticks |-> t.ticks, spliced |-> t.spliced,
                                requests |-> t.requests]>>]
    ELSE t

\* The event loop resumes a task that is ready: the update cycle whenever it is
\* suspended, a handler once a callback query has created it.
Resume ==
    /\ tasks.running = "none"
    /\ \/ /\ tasks.cycles < MaxTaskCycles
          /\ tasks' = [tasks EXCEPT !.running = "cycle"]
       \/ /\ tasks.handler >= 1
          /\ tasks' = [tasks EXCEPT !.running = "handler"]

\* The update cycle runs its next statement; an awaited one suspends it. After the
\* sleep the next cycle begins (while True in Application._run), possibly in a
\* later minute.
CycleStep ==
    /\ tasks.running = "cycle"
    /\ \E statement \in {CycleProgram[tasks.cycle]} :
       \E last \in {tasks.cycle = Len(CycleProgram)} :
       \E minute \in {tasks.minute} \cup {m \in {tasks.minute + 1} : last} :
          tasks' = [Effect(tasks, statement) EXCEPT
                        !.cycle = IF last THEN 1 ELSE @ + 1,
                        !.cycles = IF last THEN @ + 1 ELSE @,
                        !.minute = minute,
                        !.running = IF Suspends(statement) THEN "none" ELSE "cycle"]

\* A callback query arrives: the bot creates a task for serve_mute_button.
HandlerArrives ==
    /\ tasks.running # "off"
    /\ tasks.handler = 0
    /\ tasks.handled < MaxHandled
    /\ tasks' = [tasks EXCEPT !.handler = 1]

\* The handler runs its next statement; after the last one the task is over.
HandlerStep ==
    /\ tasks.running = "handler"
    /\ \E statement \in {HandlerProgram[tasks.handler]} :
       \E last \in {tasks.handler = Len(HandlerProgram)} :
          tasks' = [Effect(tasks, statement) EXCEPT
                        !.handler = IF last THEN 0 ELSE @ + 1,
                        !.handled = IF last THEN @ + 1 ELSE @,
                        !.running = IF Suspends(statement) THEN "none" ELSE "handler"]

----------------------------------------------------------------------------
(* Specifications *)

InitCL == CLInit /\ BackfillIdle /\ ApiIdle /\ LoopIdle /\ TasksIdle /\ AppIdle /\ RLIdle /\ CompressIdle /\ PatternIdle /\ ChartIdle /\ RegistryIdle
NextCL ==
    (CLAppend \/ CLExtend \/ CLPop \/ CLClear \/ CLGetSlice) /\ UNCHANGED <<lt_vars, bf_vars, api_vars, app_vars, rl_vars, tr_vars, pt_vars, ch_vars, pr_vars>>
SpecCL == InitCL /\ [][NextCL]_vars

InitRL == RLInit /\ CLIdle /\ BackfillIdle /\ ApiIdle /\ LoopIdle /\ TasksIdle /\ AppIdle /\ CompressIdle /\ PatternIdle /\ ChartIdle /\ RegistryIdle
NextRL ==
    \/ MarkRequestSending /\ UNCHANGED <<lt_vars, bf_vars, api_vars, app_vars, cl_vars, pr_vars, tr_vars, pt_vars, ch_vars>>
    \/ GetAvailableRequests /\ UNCHANGED <<lt_vars, bf_vars, api_vars, app_vars, cl_vars, pr_vars, tr_vars, pt_vars, ch_vars>>
    \/ GetTimeUntilNewRequestsCanBeMade /\ UNCHANGED <<lt_vars, bf_vars, api_vars, app_vars, cl_vars, pr_vars, tr_vars, pt_vars, ch_vars>>
    \/ Tick(1, MaxNow) /\ UNCHANGED <<lt_vars, bf_vars, api_vars, app_vars, cl_vars, pr_vars, tr_vars, pt_vars, ch_vars>>
    \/ SleepReturnedWait(MaxNow) /\ UNCHANGED <<lt_vars, bf_vars, api_vars, app_vars, cl_vars, pr_vars, tr_vars, pt_vars, ch_vars>>
SpecRL == InitRL /\ [][NextRL]_vars

InitGecko == GeckoInit /\ CLIdle /\ BackfillIdle /\ ApiIdle /\ LoopIdle /\ TasksIdle /\ AppIdle /\ CompressIdle /\ PatternIdle /\ ChartIdle /\ RegistryIdle
NextGecko ==
    \/ MarkRequestSending /\ UNCHANGED <<lt_vars, bf_vars, api_vars, app_vars, cl_vars, pr_vars, tr_vars, pt_vars, ch_vars>>
    \/ GetAvailableRequests /\ UNCHANGED <<lt_vars, bf_vars, api_vars, app_vars, cl_vars, pr_vars, tr_vars, pt_vars, ch_vars>>
    \/ GetTimeUntilNewRequestsCanBeMade /\ UNCHANGED <<lt_vars, bf_vars, api_vars, app_vars, cl_vars, pr_vars, tr_vars, pt_vars, ch_vars>>
    \/ Tick(GeckoStep, GeckoStep * MaxGeckoSteps) /\ UNCHANGED <<lt_vars, bf_vars, api_vars, app_vars, cl_vars, pr_vars, tr_vars, pt_vars, ch_vars>>
    \/ SleepReturnedWait(GeckoStep * MaxGeckoSteps)
            /\ UNCHANGED <<lt_vars, bf_vars, api_vars, app_vars, cl_vars, pr_vars, tr_vars, pt_vars, ch_vars>>
SpecGecko == InitGecko /\ [][NextGecko]_vars

InitCompress == CompressInit /\ CLIdle /\ BackfillIdle /\ ApiIdle /\ LoopIdle /\ TasksIdle /\ AppIdle /\ RLIdle /\ PatternIdle /\ ChartIdle /\ RegistryIdle
NextCompress ==
    \/ GenerateAll /\ UNCHANGED <<lt_vars, bf_vars, api_vars, app_vars, cl_vars, pr_vars, rl_vars, pt_vars, ch_vars>>
    \/ GenerateTrends /\ UNCHANGED <<lt_vars, bf_vars, api_vars, app_vars, cl_vars, pr_vars, rl_vars, pt_vars, ch_vars>>
    \/ GenerateSegments /\ UNCHANGED <<lt_vars, bf_vars, api_vars, app_vars, cl_vars, pr_vars, rl_vars, pt_vars, ch_vars>>
    \/ Recompress /\ UNCHANGED <<lt_vars, bf_vars, api_vars, app_vars, cl_vars, pr_vars, rl_vars, pt_vars, ch_vars>>
SpecCompress == InitCompress /\ [][NextCompress]_vars

InitUnit == UnitInit /\ CLIdle /\ BackfillIdle /\ ApiIdle /\ LoopIdle /\ TasksIdle /\ AppIdle /\ RLIdle /\ CompressIdle /\ ChartIdle /\ RegistryIdle
NextUnit == UnitMatch /\ UNCHANGED <<lt_vars, bf_vars, api_vars, app_vars, cl_vars, pr_vars, rl_vars, tr_vars, ch_vars>>
SpecUnit == InitUnit /\ [][NextUnit]_vars

InitMatch == MatchInit /\ CLIdle /\ BackfillIdle /\ ApiIdle /\ LoopIdle /\ TasksIdle /\ AppIdle /\ RLIdle /\ ChartIdle /\ RegistryIdle
NextMatch ==
    \/ MatchAny /\ UNCHANGED <<lt_vars, bf_vars, api_vars, app_vars, cl_vars, pr_vars, rl_vars, ch_vars>>
    \/ MatchAnyNetwork /\ UNCHANGED <<lt_vars, bf_vars, api_vars, app_vars, cl_vars, pr_vars, rl_vars, ch_vars>>
SpecMatch == InitMatch /\ [][NextMatch]_vars

InitBody == BodyInit /\ CLIdle /\ BackfillIdle /\ ApiIdle /\ LoopIdle /\ TasksIdle /\ AppIdle /\ RLIdle /\ ChartIdle /\ RegistryIdle
NextBody ==
    \/ GenerateAll /\ UNCHANGED <<lt_vars, bf_vars, api_vars, app_vars, cl_vars, pr_vars, rl_vars, pt_vars, ch_vars>>
    \/ BodyMatch /\ UNCHANGED <<lt_vars, bf_vars, api_vars, app_vars, cl_vars, pr_vars, rl_vars, ch_vars>>
SpecBody == InitBody /\ [][NextBody]_vars

InitShared == RegistryInit /\ CLIdle /\ BackfillIdle /\ ApiIdle /\ LoopIdle /\ TasksIdle /\ AppIdle /\ RLIdle /\ CompressIdle /\ PatternIdle /\ ChartIdle
NextShared ==
    \/ UpdateSnapshot /\ UNCHANGED <<lt_vars, bf_vars, api_vars, app_vars, cl_vars, rl_vars, tr_vars, pt_vars, ch_vars>>
    \/ ApplyFilter /\ UNCHANGED <<lt_vars, bf_vars, api_vars, app_vars, cl_vars, rl_vars, tr_vars, pt_vars, ch_vars>>
SpecShared == InitShared /\ [][NextShared]_vars

InitBackfill ==
    /\ BackfillInit /\ ApiIdle /\ LoopIdle /\ TasksIdle /\ AppIdle /\ CLIdle /\ RLIdle /\ CompressIdle /\ PatternIdle /\ ChartIdle
    /\ RegistryIdle
NextBackfill ==
    BackfillCycle /\ UNCHANGED <<lt_vars, api_vars, app_vars, cl_vars, rl_vars, tr_vars, pt_vars, ch_vars, pr_vars>>
SpecBackfill == InitBackfill /\ [][NextBackfill]_vars

InitApi ==
    /\ ApiInit /\ LoopIdle /\ TasksIdle /\ AppIdle /\ BackfillIdle /\ CLIdle /\ RLIdle /\ CompressIdle /\ PatternIdle /\ ChartIdle
    /\ RegistryIdle
NextApi ==
    \/ GetJson /\ UNCHANGED <<lt_vars, bf_vars, app_vars, cl_vars, rl_vars, tr_vars, pt_vars, ch_vars, pr_vars>>
    \/ Respond /\ UNCHANGED <<lt_vars, bf_vars, app_vars, cl_vars, rl_vars, tr_vars, pt_vars, ch_vars, pr_vars>>
    \/ Wake /\ UNCHANGED <<lt_vars, bf_vars, app_vars, cl_vars, rl_vars, tr_vars, pt_vars, ch_vars, pr_vars>>
SpecApi == InitApi /\ [][NextApi]_vars

InitChart ==
    /\ ChartInit /\ CLIdle /\ BackfillIdle /\ ApiIdle /\ LoopIdle /\ TasksIdle /\ AppIdle /\ RLIdle /\ CompressIdle /\ RegistryIdle
    /\ match_ret = NoMatchRet /\ unit_ret = NoUnitRet
NextChart ==
    \/ PoolsUpdate /\ UNCHANGED <<lt_vars, bf_vars, api_vars, app_vars, cl_vars, pr_vars, rl_rest, tr_vars, pt_vars>>
    \/ UpdateChartWithHistoricalData /\ UNCHANGED <<lt_vars, bf_vars, api_vars, app_vars, cl_vars, pr_vars, rl_rest, tr_vars, pt_vars>>
    \/ GetPattern /\ UNCHANGED <<lt_vars, bf_vars, api_vars, app_vars, cl_vars, pr_vars, rl_rest, tr_vars, pt_vars>>
    \/ ClockTick /\ UNCHANGED <<lt_vars, bf_vars, api_vars, app_vars, cl_vars, pr_vars, rl_rest, tr_vars, pt_vars>>
SpecChart == InitChart /\ [][NextChart]_vars

InitCycles ==
    /\ CyclesInit /\ CLIdle /\ BackfillIdle /\ ApiIdle /\ LoopIdle /\ TasksIdle /\ AppIdle /\ RLIdle /\ CompressIdle /\ RegistryIdle
    /\ match_ret = NoMatchRet /\ unit_ret = NoUnitRet
NextCycles == DetectionCycle /\ UNCHANGED <<lt_vars, bf_vars, api_vars, app_vars, cl_vars, pr_vars, rl_rest, tr_vars, pt_vars>>
SpecCycles == InitCycles /\ [][NextCycles]_vars

InitRegistry ==
    /\ RegistryInit /\ CLIdle /\ BackfillIdle /\ ApiIdle /\ LoopIdle /\ TasksIdle /\ AppIdle /\ RLIdle /\ CompressIdle /\ PatternIdle /\ ChartIdle
NextRegistry ==
    \/ Update /\ UNCHANGED <<lt_vars, bf_vars, api_vars, app_vars, cl_vars, rl_vars, tr_vars, pt_vars, ch_vars>>
    \/ ApplyFilter /\ UNCHANGED <<lt_vars, bf_vars, api_vars, app_vars, cl_vars, rl_vars, tr_vars, pt_vars, ch_vars>>
SpecRegistry == InitRegistry /\ [][NextRegistry]_vars

InitUpdates ==
    /\ UpdatesInit /\ CLIdle /\ BackfillIdle /\ ApiIdle /\ LoopIdle /\ TasksIdle /\ AppIdle /\ RLIdle /\ CompressIdle /\ RegistryIdle
    /\ match_ret = NoMatchRet /\ unit_ret = NoUnitRet
NextUpdates ==
    \/ ChartUpdateTick /\ UNCHANGED <<lt_vars, bf_vars, api_vars, app_vars, cl_vars, pr_vars, rl_rest, tr_vars, pt_vars>>
    \/ ChartUpdateBatch /\ UNCHANGED <<lt_vars, bf_vars, api_vars, app_vars, cl_vars, pr_vars, rl_rest, tr_vars, pt_vars>>
SpecUpdates == InitUpdates /\ [][NextUpdates]_vars

InitRun ==
    /\ ApplicationInit /\ BackfillInit /\ ApiIdle /\ LoopIdle /\ TasksIdle /\ CLIdle /\ RLIdle /\ CompressIdle
    /\ PatternIdle /\ ChartIdle /\ RegistryIdle
NextRun ==
    \/ Start /\ UNCHANGED <<lt_vars, bf_vars, api_vars, cl_vars, rl_vars, tr_vars, pt_vars, ch_vars, pr_vars>>
    \/ RunCycle /\ UNCHANGED <<lt_vars, api_vars, cl_vars, rl_vars, tr_vars, pt_vars, ch_vars, pr_vars>>
    \/ Cancel /\ UNCHANGED <<lt_vars, bf_vars, api_vars, cl_vars, rl_vars, tr_vars, pt_vars, ch_vars, pr_vars>>
SpecRun == InitRun /\ [][NextRun]_vars

InitLoop ==
    /\ LoopInit /\ TasksIdle /\ ApiIdle /\ AppIdle /\ BackfillIdle /\ CLIdle /\ RLIdle /\ CompressIdle
    /\ PatternIdle /\ ChartIdle /\ RegistryIdle
NextLoop ==
    \/ Iterate /\ UNCHANGED <<tasks, bf_vars, api_vars, app_vars, cl_vars, rl_vars, tr_vars, pt_vars, ch_vars, pr_vars>>
    \/ Finish /\ UNCHANGED <<tasks, bf_vars, api_vars, app_vars, cl_vars, rl_vars, tr_vars, pt_vars, ch_vars, pr_vars>>
    \/ NextView /\ UNCHANGED <<tasks, bf_vars, api_vars, app_vars, cl_vars, rl_vars, tr_vars, pt_vars, ch_vars, pr_vars>>
SpecLoop == InitLoop /\ [][NextLoop]_vars
\* The interpreter runs the loop: an enabled step is eventually taken.
SpecLoopFair == SpecLoop /\ WF_vars(NextLoop)

InitTasks ==
    /\ TasksInit /\ LoopIdle /\ ApiIdle /\ AppIdle /\ BackfillIdle /\ CLIdle /\ RLIdle /\ CompressIdle
    /\ PatternIdle /\ ChartIdle /\ RegistryIdle
NextTasks ==
    \/ Resume /\ UNCHANGED <<loop, bf_vars, api_vars, app_vars, cl_vars, rl_vars, tr_vars, pt_vars, ch_vars, pr_vars>>
    \/ CycleStep /\ UNCHANGED <<loop, bf_vars, api_vars, app_vars, cl_vars, rl_vars, tr_vars, pt_vars, ch_vars, pr_vars>>
    \/ HandlerArrives /\ UNCHANGED <<loop, bf_vars, api_vars, app_vars, cl_vars, rl_vars, tr_vars, pt_vars, ch_vars, pr_vars>>
    \/ HandlerStep /\ UNCHANGED <<loop, bf_vars, api_vars, app_vars, cl_vars, rl_vars, tr_vars, pt_vars, ch_vars, pr_vars>>
SpecTasks == InitTasks /\ [][NextTasks]_vars

----------------------------------------------------------------------------
(* Properties *)

\* Python list indexing of the reference list: r[i] for -len <= i < len.
RefIndex(r, i) == IF i >= 0 THEN r[i + 1] ELSE r[Len(r) + i + 1]

\* C4: after any sequence of append, extend, pop(n) and clear, the CircularList's
\* length, iteration order and every in-range positive or negative index read equal
\* those of the reference list (append at the end, oldest dropped beyond the
\* capacity, pop(n) removes the last n), and the length never exceeds the capacity.
C4_MatchesReferenceList ==
    /\ len(cl) = Len(ref)
    /\ iter(cl) = ref
    /\ \A i \in -MaxCapacity..(MaxCapacity - 1) :
           IndexInRange(cl, i) => getitem(cl, i) = RefIndex(ref, i)
    /\ len(cl) <= cl.capacity

\* C4 witness: a buffer that wrapped around (its oldest element was overwritten and
\* the rotation offset moved) and then lost elements to pop, still holding several.
C4_Witness ==
    /\ cl.beginning > 0
    /\ cl.size >= 2
    /\ cl.size < cl.capacity
    /\ cl.beginning + cl.size > cl.capacity
    /\ ref[1] # ref[2]

\* C3 (as claimed): get_available_requests returns max minus the number of requests
\* recorded less than one period ago, whenever at most max requests were recorded
\* within the period; in particular it returns max once the period has elapsed
\* since the last request.
C3_Conservation ==
    (rl_ret.op = "available" /\ Len(sent) <= request_limits.max)
        => rl_ret.value = request_limits.max - Len(sent)

\* C8 (as claimed): under the smart policy, for 1 <= n <= max, the wait returned is
\* zero exactly when at least n slots are free, and otherwise the remaining
\* time-to-expiry of the (n - available)-th oldest tracked timestamp; and once the
\* returned wait has elapsed with no request marked in between,
\* get_available_requests returns at least n.
C8_SmartWait ==
    /\ (/\ rl_ret.op = "time_until"
        /\ rl_ret.error = "none"
        /\ limiter_type = "Smart"
        /\ rl_ret.n >= 1)
        => LET available == request_limits.max - Len(timeline)
           IN  /\ (rl_ret.value = 0) <=> (available >= rl_ret.n)
               /\ available < rl_ret.n =>
                      rl_ret.value =
                          timeline[rl_ret.n - available] + request_limits.time_period - now
    /\ (/\ rl_ret.op = "available"
        /\ limiter_type = "Smart"
        /\ rl_ret.waited
        /\ rl_ret.promised >= 1)
        => rl_ret.value >= rl_ret.promised

\* C9 (as claimed): under the strict policy the wait returned is the time until the
\* single oldest tracked timestamp expires (zero when the window is empty),
\* whatever n is passed.
C9_StrictWaitsForOldest ==
    (rl_ret.op = "time_until" /\ limiter_type = "Strict")
        => rl_ret.value =
               IF timeline = <<>> THEN 0
               ELSE Max2(timeline[1] + request_limits.time_period - now, 0)

\* C9 (amended): under the strict policy the wait returned is the time until the
\* newest tracked timestamp expires, that is until the whole window has drained
\* (zero when the window is empty), whatever n is passed.
C9_StrictWaitsForNewest ==
    (rl_ret.op = "time_until" /\ limiter_type = "Strict")
        => /\ rl_ret.error = "none"
           /\ rl_ret.value =
               IF timeline = <<>> THEN 0
               ELSE Max2(timeline[Len(timeline)] + request_limits.time_period - now, 0)

\* C9 witness: a strict limiter asked with an explicit n while it tracks requests
\* sent at different times, the oldest of which has already run out.
C9_Witness ==
    /\ rl_ret.op = "time_until"
    /\ limiter_type = "Strict"
    /\ rl_ret.n >= 1
    /\ Len(timeline) >= 2
    /\ timeline[1] + request_limits.time_period - now = 0
    /\ rl_ret.value > 0

\* C10: with max = 30 and period = 60 s under the strict policy, a wait asked for
\* while the window holds 30 requests, less than one period after the last of them,
\* is positive and at most the period; and a wait asked for once a handed-out wait
\* has elapsed, with no request marked in between, is zero.
C10_GeckoScenario ==
    /\ (/\ rl_ret.op = "time_until"
        /\ rl_ret.before = GeckoMax
        /\ timeline # <<>>
        /\ now - timeline[Len(timeline)] < GeckoPeriod)
        => (rl_ret.value > 0 /\ rl_ret.value <= GeckoPeriod)
    /\ (rl_ret.op = "time_until" /\ rl_ret.waited) => rl_ret.value = 0

\* C10 witness: 30 requests were marked, the caller slept for the positive wait it
\* was handed, asked again and got zero.
C10_Witness ==
    /\ rl_ret.op = "time_until"
    /\ rl_ret.before = GeckoMax
    /\ rl_ret.waited
    /\ now > 0
    /\ timeline[Len(timeline)] + GeckoPeriod = now
    /\ rl_ret.value = 0

\* Every adjacent pair of changes has a negative product.
AlternatingSigns(changes) ==
    \A k \in 1..(Len(changes) - 1) : Direction(changes[k]) * Direction(changes[k + 1]) < 0

TrendChanges(trends) == [k \in 1..Len(trends) |-> trends[k].change]
SegmentChanges(segments) == [k \in 1..Len(segments) |-> SegmentChange(segments[k])]

\* C1: uncapped compression leaves no two consecutive segments of the same sign:
\* in the GLOBAL view, built from the 30-minute view by generate_all or from the
\* raw ticks by generate_trends, and in the list Segments.__init__ builds, every
\* adjacent pair of changes has a product below zero.
C1_NoAdjacentSameSign ==
    /\ pc = "views" => AlternatingSigns(TrendChanges(trends_views[Len(TrendsView)]))
    /\ (pc = "trends" /\ trends_view = Len(TrendsView))
            => AlternatingSigns(TrendChanges(trends_views[1]))
    /\ pc = "segments" => AlternatingSigns(SegmentChanges(segments_out))

\* Four raw trends were compressed to three alternating ones by one merge.
C1_Witness ==
    /\ pc = "views"
    /\ Len(ticks_in) = 5
    /\ Len(trends_views[Len(TrendsView)]) = 3
    /\ trends_views[Len(TrendsView)][1].end_timestamp - trends_views[Len(TrendsView)][1].start_timestamp > 12

\* The chart's tick buffer, oldest first.
Held == iter(chart.ticks)

\* C5: after any sequence of Chart.update calls, live ticks and historical
\* batches alike, the tick buffer is non-decreasing by timestamp from the oldest
\* tick to the newest.
C5_BufferOrdered ==
    \A i \in 1..(Len(Held) - 1) : Held[i].timestamp <= Held[i + 1].timestamp

\* The buffer is full and has wrapped around, and a historical batch has landed
\* before a live tick that was kept after it.
C5_Witness ==
    /\ chart.ticks.beginning > 0
    /\ Len(Held) = chart.ticks.capacity
    /\ \E i \in 1..(Len(Held) - 1) :
        /\ Held[i].timestamp < Held[i + 1].timestamp
        /\ Held[i].kind = "Complete"
        /\ Held[i + 1].kind = "Incomplete"

\* Two get_pattern(only_new=True) calls in immediate succession, the cooldown not
\* having elapsed at the second.
TwoCallsInSuccession ==
    /\ Len(calls) = 2
    /\ calls[1].only_new
    /\ calls[2].only_new
    /\ ~calls[2].elapsed

\* C2 as stated: of two get_pattern(only_new=True) calls in immediate succession
\* on an unchanged chart, the cooldown not elapsed, the second returns None (and
\* the first returns a match if any pattern matches a chart with no previous match).
C2_SecondCallReturnsNone ==
    TwoCallsInSuccession
        => /\ (calls[1].matching > 0 /\ ~calls[1].had_previous) => calls[1].match # <<>>
           /\ calls[2].match = <<>>

\* C2, as the code has it: of two get_pattern(only_new=True) calls in immediate
\* succession on an unchanged chart, the cooldown not elapsed, the first returns
\* a match if any pattern matches a chart with no previous match, and the second
\* returns None or a match that starts no earlier than the first one ended; it
\* returns None whenever the first one did.
C2_SecondCallReturnsNothingEarlier ==
    TwoCallsInSuccession
        => /\ (calls[1].matching > 0 /\ ~calls[1].had_previous) => calls[1].match # <<>>
           /\ calls[1].match = <<>> => calls[2].match = <<>>
           /\ (calls[1].match # <<>> /\ calls[2].match # <<>>)
                => calls[2].match[1].start_timestamp >= calls[1].match[1].end_timestamp

\* The first call returned a match and the second one None.
C2_Witness ==
    /\ TwoCallsInSuccession
    /\ ~calls[1].had_previous
    /\ calls[1].match # <<>>
    /\ calls[2].match = <<>>
    /\ calls[2].matching > 0

\* The scenario's input: prices 100, 100, 100, 70 a minute apart.
ScenarioTicks == TicksFrom(<<100, 100, 100, 70>>, <<1, 1, 1>>, 0)

InScenario ==
    /\ pc = "matched"
    /\ match_ret.table = "network"
    /\ ticks_in = ScenarioTicks

\* Every view holds the one trend from the first tick to the last, of change -0.30.
ScenarioCompressed ==
    \A k \in 1..Len(match_ret.views) :
        match_ret.views[k] = <<Trend(<<7, 10>>, 0, 3)>>

\* A DUMP match over the whole sequence, flagged significant, was yielded.
ScenarioDumpMatched ==
    \E k \in 1..Len(match_ret.matches) :
        /\ match_ret.matches[k].pattern = "DUMP"
        /\ match_ret.matches[k].start_timestamp = 0
        /\ match_ret.matches[k].end_timestamp = 3
        /\ match_ret.matches[k].significant
        /\ match_ret.matches[k].magnitude = <<3, 10>>

\* The required magnitude of DUMP (15%) after _scale is at most 0.30: testing mode,
\* no pool, or a pool whose liquidity is unset or at least 60,000.
ScenarioThresholdReached ==
    \/ config.testing_mode
    \/ pool = <<>>
    \/ pool[1] = 0
    \/ pool[1] >= 60000

RequiredMinimum == scale(UnitMagnitude(unit_ret.unit), pool, config.testing_mode)

\* C7: a unit matches a trend if and only if the trend's change has the sign of
\* the unit's threshold, its magnitude is at least the required minimum and its
\* timeframe is within min_timeframe and max_timeframe where set, all bounds
\* inclusive.
C7_UnitMatchIff ==
    unit_ret.op = "match"
        => (unit_ret.value <=>
                /\ Direction(unit_ret.trend.change) * unit_ret.unit.min_change > 0
                /\ ~FracLess(get_magnitude(unit_ret.trend), RequiredMinimum)
                /\ (unit_ret.unit.min_timeframe = 0
                        \/ get_timeframe(unit_ret.trend) >= unit_ret.unit.min_timeframe)
                /\ (unit_ret.unit.max_timeframe = 0
                        \/ get_timeframe(unit_ret.trend) <= unit_ret.unit.max_timeframe))

\* A trend whose magnitude equals the liquidity-scaled minimum and whose
\* timeframe equals the unit's max_timeframe matched.
C7_Witness ==
    /\ unit_ret.op = "match"
    /\ unit_ret.value
    /\ ~config.testing_mode
    /\ pool = <<60000>>
    /\ get_magnitude(unit_ret.trend) = RequiredMinimum
    /\ get_timeframe(unit_ret.trend) = unit_ret.unit.max_timeframe

\* C11: mark_request_sending on a timeline that already holds max timestamps
\* evicts the oldest and records the new one in permissive mode, leaving exactly
\* max timestamps, and in raise-on-limit mode fails with RateLimitExceeded and
\* leaves the timeline as it was.
C11_MarkAtLimit ==
    [][(rl_ret'.op = "mark" /\ Len(timeline) = request_limits.max)
        => IF raise_on_limit
           THEN /\ rl_ret'.error = "RateLimitExceeded"
                /\ timeline' = timeline
           ELSE /\ rl_ret'.error = "none"
                /\ timeline' = Append(Tail(timeline), now)
                /\ Len(timeline') = request_limits.max]_vars

\* A permissive limiter of two or more slots was full, and a later request pushed
\* the oldest timestamp out.
C11_Witness ==
    /\ rl_ret.op = "mark"
    /\ rl_ret.error = "none"
    /\ ~raise_on_limit
    /\ request_limits.max >= 2
    /\ rl_ret.before = request_limits.max
    /\ Len(timeline) = request_limits.max
    /\ timeline[Len(timeline)] = now
    /\ timeline[1] < now

\* The product of (1 + change) over a list of trends, as a fraction in lowest terms.
RECURSIVE TotalChange(_)
TotalChange(trends) ==
    IF Len(trends) = 0 THEN <<1, 1>>
    ELSE FracTimes(trends[1].change, TotalChange(Tail(trends)))

\* last_price / first_price of the compressed ticks.
PriceRatio == Ratio(ticks_in[Len(ticks_in)].price, ticks_in[1].price)

\* C12: compression preserves the total price change: for two or more ticks of
\* positive price, the product of (1 + change) over the trends of any view
\* equals last_price / first_price.
C12_TotalChangePreserved ==
    (Len(ticks_in) >= 2 /\ pc \in {"views", "trends"})
        => \A k \in 1..Len(trends_views) : TotalChange(trends_views[k]) = PriceRatio

\* Five ticks that end away from where they began were compressed to two trends.
C12_Witness ==
    /\ pc = "views"
    /\ Len(ticks_in) = 5
    /\ ticks_in[1].price # ticks_in[5].price
    /\ Len(trends_views[Len(TrendsView)]) = 2

\* C13: uncapped compression is idempotent: compressing the list it produced
\* once more, as Trends under GLOBAL or as Segments under either traversal,
\* returns the identical list.
C13_Idempotent ==
    /\ pc = "views_again" => recompressed = trends_views[Len(TrendsView)]
    /\ pc = "trends_again" => recompressed = trends_views[1]
    /\ pc = "segments_again" => recompressed = segments_out

\* Three segments came out of five ticks, the middle one too large to be
\* absorbed, and they were compressed again.
C13_Witness ==
    /\ pc = "segments_again"
    /\ Len(ticks_in) = 5
    /\ Len(segments_out) = 3
    /\ Len(recompressed) = 3

LastCall == calls[Len(calls)]

\* What a call reports when it passes over exactly the candidates that Passed
\* accepts: the first of the others, whose end becomes the marker.
Reports(c, Passed(_)) ==
    LET fresh == SelectSeq(c.candidates, LAMBDA m : ~Passed(m))
    IN  IF Len(fresh) = 0
        THEN c.match = <<>> /\ chart.previous_pattern_end_timestamp = c.previous
        ELSE c.match = <<fresh[1]>>
             /\ chart.previous_pattern_end_timestamp = <<fresh[1].end_timestamp>>

SameMoveReportedAgain(i, j) ==
    /\ i < j
    /\ calls[i].match # <<>>
    /\ calls[j].match # <<>>
    /\ calls[j].match[1].start_timestamp = calls[i].match[1].start_timestamp
    /\ calls[j].match[1].end_timestamp >= calls[i].match[1].end_timestamp

\* C15: over successive detection cycles, a move whose matched window keeps its
\* start while its end grows is returned by get_pattern(only_new=True) a second
\* time only when a cooldown is configured and has elapsed since the end of the
\* window returned first.
C15_OncePerCooldown ==
    \A i, j \in 1..Len(calls) :
        SameMoveReportedAgain(i, j)
            => /\ chart.repetition_reset_cooldown # 0
               /\ calls[j].at - calls[i].match[1].end_timestamp >= chart.repetition_reset_cooldown

\* The second cycle returned a match, the third saw the same window grown by a
\* further tick within the cooldown and returned nothing.
C15_Witness ==
    /\ Len(calls) = 3
    /\ calls[2].match # <<>>
    /\ calls[3].match = <<>>
    /\ chart.repetition_reset_cooldown # 0
    /\ \E k \in 1..Len(calls[3].candidates) :
          /\ calls[3].candidates[k].start_timestamp = calls[2].match[1].start_timestamp
          /\ calls[3].candidates[k].end_timestamp > calls[2].match[1].end_timestamp

\* The last two calls were updates with two pools of one token pair on different
\* DEXes, of different volumes, both passing the inclusion filter, under
\* repeated_pool_filter_key = volume.
FirstRival == processed[Len(processed) - 1].pool[1]
SecondRival == processed[Len(processed)].pool[1]
TwoRivalsProcessed ==
    /\ Len(processed) >= 2
    /\ processed[Len(processed) - 1].op = "update"
    /\ processed[Len(processed)].op = "update"
    /\ registry.repeated_pool_filter_key = "volume"
    /\ FirstRival.address # SecondRival.address
    /\ FirstRival.base_token = SecondRival.base_token
    /\ FirstRival.quote_token = SecondRival.quote_token
    /\ FirstRival.dex # SecondRival.dex
    /\ FirstRival.volume # SecondRival.volume
    /\ FirstRival.volume >= MinVolume /\ FirstRival.liquidity >= MinLiquidity
    /\ SecondRival.volume >= MinVolume /\ SecondRival.liquidity >= MinLiquidity

HigherRival == IF FirstRival.volume > SecondRival.volume THEN FirstRival ELSE SecondRival
LowerRival == IF FirstRival.volume > SecondRival.volume THEN SecondRival ELSE FirstRival

\* Of the pair only the higher-volume pool is registered, and the other's DEX is
\* in the DEX set only if a registered pool is on it.
OnlyHigherRivalRemains ==
    /\ \A q \in registry.pools :
          (q.base_token = HigherRival.base_token /\ q.quote_token = HigherRival.quote_token)
              => q.address = HigherRival.address
    /\ \E q \in registry.pools : q.address = HigherRival.address
    /\ LowerRival.dex \in registry.dexes => \E q \in registry.pools : q.dex = LowerRival.dex

\* C16 as stated: once Pools.update has processed the two pools, in either
\* order, only the higher-volume one is registered and the other's DEX is gone
\* from the DEX set unless a registered pool is on it.
C16_OnlyHigherVolumeRemains == TwoRivalsProcessed => OnlyHigherRivalRemains

\* C16 amended: the same for a registry that held no pool of that token pair
\* before the two were processed; a registered rival is compared by the volume
\* stored at its last update.
C16_OnlyHigherVolumeRemainsFromNone ==
    (/\ TwoRivalsProcessed
     /\ \A q \in processed[Len(processed) - 1].before :
           ~(q.base_token = FirstRival.base_token /\ q.quote_token = FirstRival.quote_token))
        => OnlyHigherRivalRemains

\* The second of the two evicted the first, whose DEX left the DEX set, while a
\* pool of another pair stayed.
C16_Witness ==
    /\ TwoRivalsProcessed
    /\ \A q \in processed[Len(processed) - 1].before : q.address = "EQ3"
    /\ processed[Len(processed) - 1].before # {}
    /\ SecondRival.volume > FirstRival.volume
    /\ FirstRival.dex \notin registry.dexes
    /\ Cardinality(registry.pools) = 2

LastUpdate == calls[1]
HeldBefore == iter(LastUpdate.before)
HeldAfter == iter(chart.ticks)
StampsOf(ticks) == {ticks[i].timestamp : i \in 1..Len(ticks)}
TicksAt(ticks, t) == SelectSeq(ticks, LAMBDA x : x.timestamp = t)

\* C18: Chart.update with a single Incomplete tick whose timestamp already has
\* a Complete tick in the buffer leaves the buffer as it was: same ticks, same
\* order, same length.
C18_IncompleteOverCompleteIsNoOp ==
    (/\ Len(calls) = 1
     /\ LastUpdate.is_tick
     /\ LastUpdate.new_ticks[1].kind = "Incomplete"
     /\ \E i \in 1..Len(HeldBefore) :
           /\ HeldBefore[i].kind = "Complete"
           /\ HeldBefore[i].timestamp = LastUpdate.new_ticks[1].timestamp)
        => /\ HeldAfter = HeldBefore
           /\ chart.ticks = LastUpdate.before

\* An Incomplete tick of another price arrived for the minute of a buffered
\* Complete tick, with ticks buffered before and after that minute.
C18_Witness ==
    /\ Len(calls) = 1
    /\ LastUpdate.is_tick
    /\ Len(HeldBefore) = 3
    /\ HeldBefore[2].kind = "Complete"
    /\ HeldBefore[2].timestamp = LastUpdate.new_ticks[1].timestamp
    /\ HeldBefore[2].price # LastUpdate.new_ticks[1].price
    /\ HeldAfter = HeldBefore

\* The last call delivered a list of Complete ticks.
BatchDelivered ==
    /\ Len(calls) = 1
    /\ ~LastUpdate.is_tick
    /\ Len(LastUpdate.new_ticks) > 0
    /\ \A i \in 1..Len(LastUpdate.new_ticks) : LastUpdate.new_ticks[i].kind = "Complete"

BatchStart == LastUpdate.new_ticks[1].timestamp
BatchEnd == LastUpdate.new_ticks[Len(LastUpdate.new_ticks)].timestamp
OlderKept == SelectSeq(HeldBefore, LAMBDA x : x.timestamp < BatchStart)
NewerKept == SelectSeq(HeldBefore, LAMBDA x : x.timestamp > BatchEnd)
FitsCapacity ==
    Len(OlderKept) + Len(LastUpdate.new_ticks) + Len(NewerKept) <= chart.ticks.capacity

\* The minutes at which the buffer held an Incomplete tick and the batch has a tick.
Superseded ==
    {t \in StampsOf(LastUpdate.new_ticks) :
        \E i \in 1..Len(HeldBefore) :
            HeldBefore[i].timestamp = t /\ HeldBefore[i].kind = "Incomplete"}

\* C19 as stated: an Incomplete tick at T followed by a batch of Complete ticks
\* with a tick at T leaves exactly one tick at T, the Complete one.
C19_ExactlyOneCompleteTick ==
    BatchDelivered
        => \A t \in Superseded :
              /\ Len(TicksAt(HeldAfter, t)) = 1
              /\ TicksAt(HeldAfter, t)[1].kind = "Complete"

\* C19 amended: afterwards the buffer holds no Incomplete tick at T and at most
\* one tick at T, the batch's; it holds that one whenever the older ticks, the
\* batch and the newer ticks fit in the buffer together.
C19_CompleteTickUnlessPushedOut ==
    BatchDelivered
        => \A t \in Superseded :
              /\ TicksAt(HeldAfter, t) \in {<<>>, TicksAt(LastUpdate.new_ticks, t)}
              /\ Len(TicksAt(LastUpdate.new_ticks, t)) = 1
              /\ TicksAt(LastUpdate.new_ticks, t)[1].kind = "Complete"
              /\ FitsCapacity => Len(TicksAt(HeldAfter, t)) = 1

\* A live tick at the first minute of a batch, of another price, was replaced by
\* the batch's tick, and the older tick stayed.
C19_Witness ==
    /\ BatchDelivered
    /\ BatchStart \in Superseded
    /\ Len(OlderKept) = 1
    /\ FitsCapacity
    /\ \E i \in 1..Len(HeldBefore) :
          /\ HeldBefore[i].timestamp = BatchStart
          /\ HeldBefore[i].price # LastUpdate.new_ticks[1].price
    /\ Len(TicksAt(HeldAfter, BatchStart)) = 1

\* C20: a batch spanning [a, b] leaves, when the result fits the capacity, the
\* old ticks before a in their order, then the batch, then the old ticks after b
\* in their order, and nothing else.
C20_OnlyTheRangeChanges ==
    (BatchDelivered /\ FitsCapacity)
        => HeldAfter = OlderKept \o LastUpdate.new_ticks \o NewerKept

\* A batch landed between an older and a newer tick and replaced a tick of its
\* range.
C20_Witness ==
    /\ BatchDelivered
    /\ FitsCapacity
    /\ Len(OlderKept) = 1
    /\ Len(NewerKept) = 1
    /\ Len(HeldBefore) = 3
    /\ HeldBefore[2] \notin {LastUpdate.new_ticks[i] : i \in 1..Len(LastUpdate.new_ticks)}
    /\ Len(HeldAfter) = 4

\* C21: pop(n) with n greater than the current size raises NotEnoughItemsToPop
\* and leaves size, rotation offset and contents as they were.
C21_PopBeyondSizeFails ==
    (cl_call.op = "pop" /\ cl_call.args[1] > cl_call.before.size)
        => /\ cl_call.raised = "NotEnoughItemsToPop"
           /\ cl.size = cl_call.before.size
           /\ cl.beginning = cl_call.before.beginning
           /\ cl.list = cl_call.before.list
           /\ iter(cl) = ref

\* Three items were asked of a wrapped buffer holding two.
C21_Witness ==
    /\ cl_call.op = "pop"
    /\ cl_call.args[1] = 3
    /\ cl.size = 2
    /\ cl.beginning > 0
    /\ cl_call.raised = "NotEnoughItemsToPop"

\* Python's list slice with step 1: negative bounds count from the end, bounds
\* outside the list are clamped.
FlatBound(i, n) == IF i < 0 THEN Max2(i + n, 0) ELSE Min2(i, n)
FlatSlice(r, start, stop) ==
    LET first == IF start = <<>> THEN 0 ELSE FlatBound(start[1], Len(r))
        last  == IF stop = <<>> THEN Len(r) ELSE FlatBound(stop[1], Len(r))
    IN  SubSeq(r, first + 1, last)

\* C22 as stated: buf[start:stop] raises nothing and gives the elements the same
\* slice of the equivalent flat list gives, whatever the buffer state and the
\* bounds.
C22_SliceMatchesFlatList ==
    cl_call.op = "getslice"
        => /\ cl_call.raised = "none"
           /\ cl_call.value = FlatSlice(ref, cl_call.args[1], cl_call.args[2])

\* What does hold: on a buffer that is not empty, with start in [-size, size) and
\* stop in [-size, size], the slice equals the flat list's.
SliceBoundsInRange ==
    /\ cl_call.args[1] # <<>>
          => (-cl.size <= cl_call.args[1][1] /\ cl_call.args[1][1] < cl.size)
    /\ cl_call.args[2] # <<>>
          => (-cl.size <= cl_call.args[2][1] /\ cl_call.args[2][1] <= cl.size)

SliceMatchesFlatListInRange ==
    (cl_call.op = "getslice" /\ cl.size > 0 /\ SliceBoundsInRange)
        => /\ cl_call.raised = "none"
           /\ cl_call.value = FlatSlice(ref, cl_call.args[1], cl_call.args[2])

----------------------------------------------------------------------------
(* The windows a pattern body is matched against *)

MatchedBody == match_ret.body
MatchedTrends == match_ret.trends
BodyMatched == pc = "matched" /\ match_ret.table = "body"

\* The k trends ending `back` trends before the latest one.
Window(back) ==
    SubSeq(MatchedTrends, Len(MatchedTrends) - back - MatchedBody.length + 1,
           Len(MatchedTrends) - back)

\* Every unit accepts the trend at its place in the window.
Fits(window) ==
    \A j \in 1..MatchedBody.length :
        unit_match(MatchedBody.units[j], window[j], pool, config.testing_mode)

LatestFits == Len(MatchedTrends) >= MatchedBody.length /\ Fits(Window(0))
DelayedFits ==
    /\ config.delay_tolerance # 0
    /\ Len(MatchedTrends) >= MatchedBody.length + 1
    /\ get_timeframe(MatchedTrends[Len(MatchedTrends)]) <= config.delay_tolerance
    /\ Fits(Window(1))

ReportsWindow(window) ==
    /\ match_ret.matches # <<>>
    /\ match_ret.matches[1].start_timestamp = window[1].start_timestamp
    /\ match_ret.matches[1].end_timestamp = window[Len(window)].end_timestamp
    /\ match_ret.matches[1].magnitude = get_magnitude(window[MatchedBody.magnitude_index])

\* C23: a body of k units matches on the last k trends; failing that, and only with
\* a delay tolerance set, at least k + 1 trends and a latest trend no longer than the
\* tolerance, on the k trends before the latest one; otherwise (and always with
\* fewer than k trends) it does not match.
C23_TwoCandidateWindows ==
    BodyMatched =>
        /\ LatestFits => ReportsWindow(Window(0))
        /\ ~LatestFits /\ DelayedFits => ReportsWindow(Window(1))
        /\ ~LatestFits /\ ~DelayedFits => match_ret.matches = <<>>
        /\ Len(MatchedTrends) < MatchedBody.length => match_ret.matches = <<>>

\* A two-unit body matched on the two trends before a short latest trend.
C23_Witness ==
    /\ BodyMatched
    /\ MatchedBody.length = 2
    /\ ~LatestFits
    /\ DelayedFits
    /\ match_ret.matches # <<>>
    /\ match_ret.matches[1].end_timestamp = MatchedTrends[Len(MatchedTrends)].start_timestamp

\* The window the match was reported for.
MatchedWindow == IF LatestFits THEN Window(0) ELSE Window(1)

\* The place of the unit with the largest min_change magnitude, the first of equals.
IndicatorIndex ==
    CHOOSE k \in 1..MatchedBody.length :
        /\ \A j \in 1..MatchedBody.length :
              Abs(MatchedBody.units[j].min_change) <= Abs(MatchedBody.units[k].min_change)
        /\ \A j \in 1..(k - 1) :
              Abs(MatchedBody.units[j].min_change) < Abs(MatchedBody.units[k].min_change)

\* magnitude / min_change >= significance_threshold, the two in percent:
\* (num / den) / (|min_change| / 100) >= threshold / 100.
RatioReachesThreshold ==
    LET magnitude == get_magnitude(MatchedWindow[IndicatorIndex])
    IN  magnitude[1] * 100 * 100
            >= MatchedBody.significance_threshold
                   * Abs(MatchedBody.units[IndicatorIndex].min_change) * magnitude[2]

C24_SignificantReached ==
    /\ BodyMatched
    /\ match_ret.matches # <<>>
    /\ IndicatorIndex = 2
    /\ MatchedBody.significance_threshold # 0
    /\ match_ret.matches[1].significant

----------------------------------------------------------------------------
(* Liquidity scaling *)

UnitMatched == unit_ret.op = "match" /\ ~config.testing_mode /\ pool # <<>>

\* min * (1 + slope * (base - L) / base) below base, min from base on.
LinearPenalty(min, liquidity) ==
    IF liquidity < ScaleBase
    THEN FracTimes(min, Ratio(ScaleSlope[2] * ScaleBase
                                  + ScaleSlope[1] * (ScaleBase - liquidity),
                              ScaleSlope[2] * ScaleBase))
    ELSE min

\* What the unit requires of a trend for a pool of the given liquidity.
RequiredFor(liquidity) == scale(UnitMagnitude(unit_ret.unit), <<liquidity>>, FALSE)

FollowsLinearPenalty ==
    RequiredFor(pool[1]) = LinearPenalty(UnitMagnitude(unit_ret.unit), pool[1])

NeverBelowUnscaled == FracLeq(UnitMagnitude(unit_ret.unit), RequiredFor(pool[1]))

\* No pool of more liquidity requires more, and a trend the unit matches for this
\* pool it matches for every pool of at least this liquidity.
MonotoneFrom(liquidities) ==
    \A more \in {l \in liquidities : l >= pool[1]} :
        /\ FracLeq(RequiredFor(more), RequiredFor(pool[1]))
        /\ unit_ret.value
              => unit_match(unit_ret.unit, unit_ret.trend, <<more>>, config.testing_mode)

\* C25: outside testing mode a unit requires min * (1 + slope * (base - L) / base)
\* of a pool of liquidity L below base and min otherwise; the requirement is never
\* below min and never falls as liquidity falls, so a trend matched for liquidity L
\* is matched for every liquidity L' >= L.
C25_ScalingMonotone ==
    UnitMatched => FollowsLinearPenalty /\ NeverBelowUnscaled /\ MonotoneFrom(Liquidities)

\* The same for pools whose liquidity is not zero.
ScalingMonotoneAboveZero ==
    UnitMatched /\ pool[1] # 0 =>
        FollowsLinearPenalty /\ NeverBelowUnscaled /\ MonotoneFrom(Liquidities)

\* A unit matched a trend for a pool of liquidity zero that it does not match for
\* a pool of more liquidity.
ZeroLiquidityMatchedAlone ==
    /\ UnitMatched
    /\ pool = <<0>>
    /\ unit_ret.value
    /\ \E more \in Liquidities :
          ~unit_match(unit_ret.unit, unit_ret.trend, <<more>>, config.testing_mode)

----------------------------------------------------------------------------
(* Shared Token and DEX records *)

TokenRoles == {"base_token", "quote_token"}

\* What the registry's objects say of a pool's token or DEX.
RecordOf(q, role) == registry.heap[q.refs[role]]

\* Two registered pools naming one token, in whatever roles, point to one object
\* of self.tokens; two naming one DEX point to one object of self.dexes.
RecordsShared ==
    /\ \A p, q \in registry.pools : \A r1, r2 \in TokenRoles :
          /\ RecordOf(p, r1).key = p[r1]
          /\ p[r1] = q[r2] => p.refs[r1] = q.refs[r2] /\ p.refs[r1] \in registry.token_refs
    /\ \A p, q \in registry.pools :
          /\ RecordOf(p, "dex").key = p.dex
          /\ p.dex = q.dex => p.refs.dex = q.refs.dex /\ p.refs.dex \in registry.dex_refs

LastProcessed == processed[Len(processed)]
Delivered ==
    /\ Len(processed) > 0
    /\ LastProcessed.op = "update"
    /\ LastProcessed.stored

\* Every registered pool of a token or DEX of the pool just delivered shows the
\* names delivered with it.
NamesObserved ==
    \A q \in registry.pools :
        /\ \A r1, r2 \in TokenRoles :
              q[r1] = LastProcessed.pool[1][r2]
                  => RecordOf(q, r1).name = LastProcessed.pool[1].snapshot
        /\ q.dex = LastProcessed.pool[1].dex
              => RecordOf(q, "dex").name = LastProcessed.pool[1].snapshot

\* C26: after any sequence of Pools.update and apply_filter calls, registered
\* pools naming the same token or the same DEX hold the same object of the
\* registry's token or DEX set, so the names delivered with one pool's update show
\* through every pool of that token or DEX.
C26_SharedRecords == RecordsShared /\ (Delivered => NamesObserved)

\* A pool delivered with new names next to a pool last delivered with the old ones,
\* of the same quote token and DEX and of another base token: the older pool shows
\* the new names for what it shares and the old name for its own base token.
C26_Witness ==
    /\ Delivered
    /\ LastProcessed.pool[1].snapshot = 2
    /\ \E q \in registry.pools :
          /\ q.address # LastProcessed.pool[1].address
          /\ q.snapshot = 1
          /\ q.quote_token = LastProcessed.pool[1].quote_token
          /\ q.dex = LastProcessed.pool[1].dex
          /\ q.base_token # LastProcessed.pool[1].base_token
          /\ RecordOf(q, "quote_token").name = 2
          /\ RecordOf(q, "dex").name = 2
          /\ RecordOf(q, "base_token").name = 1

----------------------------------------------------------------------------
(* An update of a registered pool *)

Incoming == LastProcessed.pool[1]
RegisteredBefore == {q \in LastProcessed.before : q.address = Incoming.address}
RegisteredAfter == {q \in registry.pools : q.address = Incoming.address}

\* The last call was an update with a pool whose address was registered.
RegisteredPoolUpdated ==
    /\ Len(processed) > 0
    /\ LastProcessed.op = "update"
    /\ RegisteredBefore # {}

\* The registry is as large as it was and its pool of that address has the
\* incoming figures.
TakesIncomingFigures ==
    /\ Cardinality(registry.pools) = Cardinality(LastProcessed.before)
    /\ \E q \in RegisteredAfter :
          /\ q.price_native = Incoming.price_native
          /\ q.volume = Incoming.volume
          /\ q.liquidity = Incoming.liquidity

LiveTick ==
    IncompleteTick(floor_timestamp_to_minutes(LastProcessed.at), Incoming.price_native)

\* C27: an update with a pool whose address is registered leaves the registry as
\* large as it was, gives the registered pool the incoming figures, and the chart
\* of the registered pool then holds its previous ticks and a tick of the incoming
\* price at the update's timestamp floored to the minute.
C27_RegisteredPoolUpdatedInPlace ==
    RegisteredPoolUpdated =>
        /\ TakesIncomingFigures
        /\ \A q \in RegisteredAfter : \E was \in RegisteredBefore :
              q.chart = Append(was.chart, LiveTick)

\* What holds instead: the figures are taken and the chart of the registered pool is
\* as it was before the call.
RegisteredChartLeftAlone ==
    RegisteredPoolUpdated =>
        /\ TakesIncomingFigures
        /\ \A q \in RegisteredAfter : \E was \in RegisteredBefore : q.chart = was.chart

\* A registered pool was updated with another price and its chart holds the one
\* tick of the price it was first stored with.
RegisteredPoolMissedTick ==
    /\ RegisteredPoolUpdated
    /\ \E q \in RegisteredAfter :
          /\ q.price_native = 2
          /\ Len(q.chart) = 1
          /\ q.chart[1].price = 1

----------------------------------------------------------------------------
(* The pools chosen for backfill *)

Phase == backfill.phase
PhaseRan == Phase # NoPhase
Requested == {Phase.requested[k] : k \in DOMAIN Phase.requested}
Chosen == {Phase.priority_pools[k] : k \in DOMAIN Phase.priority_pools}

\* The counter of a pool's last backfill as the phase found it.
LastBackfill(x) == IF x \in DOMAIN Phase.before THEN Phase.before[x] ELSE -1

\* x ranks above y: backfilled longer ago or never, or at the same cycle with more
\* activity.
RanksAbove(x, y) ==
    \/ LastBackfill(x) < LastBackfill(y)
    \/ LastBackfill(x) = LastBackfill(y) /\ Phase.activity[x] > Phase.activity[y]

NoBackfillCallAnswered ==
    /\ backfill.last_chart_update = <<>>
    /\ backfill.served = <<>>
    /\ PhaseRan =>
          /\ Len(Phase.requested) <= 1
          /\ Phase.priority_pools # <<>> <=> Phase.raised
          /\ Phase.raised => Phase.error = "TypeError"

----------------------------------------------------------------------------
(* The waits after 429 and 500 responses *)

Log == api.log
Policy == api.error_cooldown[1]
LastIsWait == api.pc # "none" /\ Len(Log) > 0 /\ Log[Len(Log)].kind = "wait"
LastWait == Log[Len(Log)]

\* The waits made before the last one, the latest of them, and whether a 200 was
\* answered since.
EarlierWaits == {j \in 1..(Len(Log) - 1) : Log[j].kind = "wait"}
PreviousWait == Log[CHOOSE j \in EarlierWaits : \A k \in EarlierWaits : k <= j]
SucceededSince ==
    \E k \in 1..(Len(Log) - 1) :
        /\ Log[k].kind = "ok"
        /\ \A j \in EarlierWaits : j < k

\* The 429 and 500 responses in a row that end the log, and what came before them.
RunStart ==
    CHOOSE j \in 1..Len(Log) :
        /\ \A k \in j..Len(Log) : Log[k].kind = "wait"
        /\ j > 1 => Log[j - 1].kind # "wait"
RunLength == Len(Log) - RunStart + 1
RunFollowsSuccess == RunStart = 1 \/ Log[RunStart - 1].kind = "ok"

RECURSIVE ToThePower(_, _)
ToThePower(base, exponent) ==
    IF exponent = 0 THEN 1 ELSE base * ToThePower(base, exponent - 1)

\* C29 as stated: the k-th 429 or 500 response in a row, counted from the start or
\* from the last 200, waits base * multiplier^(k - 1); so the first one after a
\* 200 waits the base cooldown.
C29_ExponentialResetOnSuccess ==
    LastIsWait /\ RunFollowsSuccess =>
        LastWait.wait = Policy.start_cooldown * ToThePower(Policy.multiplier, RunLength - 1)

\* C29 amended: a retried 429 or 500 response waits the base cooldown if it is the
\* client's first, if the policy has a within_time_period and more than that
\* passed since the previous wait was made, or if the policy has none and a 200
\* was answered since the previous wait; otherwise it waits the previous wait
\* times the multiplier, a 200 in between or not.
C29_ExponentialResetByPolicy ==
    LastIsWait =>
        LastWait.wait =
            IF EarlierWaits = {} THEN Policy.start_cooldown
            ELSE IF Policy.auto_reset_after # 0
            THEN IF LastWait.at - PreviousWait.at > Policy.auto_reset_after
                 THEN Policy.start_cooldown
                 ELSE PreviousWait.wait * Policy.multiplier
            ELSE IF SucceededSince THEN Policy.start_cooldown
                 ELSE PreviousWait.wait * Policy.multiplier

\* Under main.py's policy a 429 was retried, the call returned on a 200, and the
\* 429 of the next call a second later waited twice the base cooldown.
C29_Witness ==
    /\ LastIsWait
    /\ Policy.auto_reset_after # 0
    /\ EarlierWaits # {}
    /\ SucceededSince
    /\ RunLength = 1
    /\ PreviousWait.wait = Policy.start_cooldown
    /\ LastWait.wait = 2 * Policy.start_cooldown

\* Under main.py's policy the wait went back to the base cooldown after more than
\* twenty quiet minutes.
ResetAfterQuietPeriod ==
    /\ LastIsWait
    /\ Policy.auto_reset_after # 0
    /\ EarlierWaits # {}
    /\ LastWait.at - PreviousWait.at > Policy.auto_reset_after
    /\ LastWait.wait = Policy.start_cooldown

\* Without within_time_period the wait went back to the base cooldown after a 200.
ResetOnSuccess ==
    /\ LastIsWait
    /\ Policy.auto_reset_after = 0
    /\ EarlierWaits # {}
    /\ SucceededSince
    /\ LastWait.wait = Policy.start_cooldown

----------------------------------------------------------------------------
(* 429 and 500 responses under a cooldown policy *)

Answered == api.pc # "none" /\ api.error_cooldown # <<>> /\ Len(Log) > 0
LastEvent == Log[Len(Log)]
NeverTypedError == api.error \notin {"RateLimitExceeded", "InternalServerError"}

\* C30: with a cooldown policy, _get_json sleeps and retries after every 429 or 500
\* response, raises neither RateLimitExceeded nor InternalServerError, and returns
\* on a 200.
C30_ErrorsRetriedUntilSuccess ==
    Answered =>
        /\ LastEvent.response.code \in {429, 500} => LastEvent.kind = "wait"
        /\ LastEvent.response.code = 200 => LastEvent.kind = "ok"
        /\ NeverTypedError

\* The same for the responses whose reason phrase is the one Status expects: they
\* are retried after a sleep of the wait made, or returned; any other response
\* raises UnexpectedResponse.
ExpectedResponsesRetried ==
    Answered =>
        /\ NeverTypedError
        /\ IF LastEvent.response \in Status
           THEN IF LastEvent.response.code = 200
                THEN LastEvent.kind = "ok"
                ELSE /\ LastEvent.kind = "wait"
                     /\ api.due = LastEvent.at + LastEvent.wait
                     /\ api.pc \in {"sleeping", "requesting"}
                     /\ api.pc = "requesting" => api.now = api.due
           ELSE LastEvent.kind = "raise" /\ api.error \in {"UnexpectedResponse", "none"}

\* A 429 with another reason phrase came while a policy was configured, and the
\* call raised UnexpectedResponse.
UnexpectedRateLimitRaised ==
    /\ Answered
    /\ LastEvent.response.code = 429
    /\ api.pc = "raised"
    /\ api.error = "UnexpectedResponse"

\* A call was retried twice and then returned.
ReturnedAfterRetries ==
    /\ Answered
    /\ api.pc = "returned"
    /\ Len(Log) >= 3
    /\ Log[Len(Log) - 1].kind = "wait"
    /\ Log[Len(Log) - 2].kind = "wait"
    /\ Log[Len(Log) - 1].at = Log[Len(Log) - 2].at + Log[Len(Log) - 2].wait + Latency

----------------------------------------------------------------------------
(* Responses without a cooldown policy *)

AnsweredWithoutPolicy == api.pc # "none" /\ api.error_cooldown = <<>> /\ Len(Log) > 0
RaisedAtOnce(error) == api.pc = "raised" /\ api.error = error /\ LastEvent.kind = "raise"

\* C31: with no cooldown policy, a 429 raises RateLimitExceeded and a 500 raises
\* InternalServerError without any retry, and a 200 returns the response body.
C31_TypedErrorsWithoutPolicy ==
    AnsweredWithoutPolicy /\ api.pc # "requesting" =>
        /\ LastEvent.response = Response(429, "Too Many Requests")
               => RaisedAtOnce("RateLimitExceeded")
        /\ LastEvent.response = Response(500, "Internal Server Error")
               => RaisedAtOnce("InternalServerError")
        /\ LastEvent.response = Response(200, "OK")
               => api.pc = "returned" /\ LastEvent.kind = "ok"

\* What the code does without a policy: the typed errors as stated and never a
\* wait, but on 200 the reset of the missing cooldown raises AttributeError, so
\* no call returns.
TypedErrorsAndNoReturnWithoutPolicy ==
    AnsweredWithoutPolicy /\ api.pc # "requesting" =>
        /\ LastEvent.response = Response(429, "Too Many Requests")
               => RaisedAtOnce("RateLimitExceeded")
        /\ LastEvent.response = Response(500, "Internal Server Error")
               => RaisedAtOnce("InternalServerError")
        /\ LastEvent.response = Response(200, "OK") => RaisedAtOnce("AttributeError")
        /\ \A i \in 1..Len(Log) : Log[i].kind = "raise"

\* A 200 came to a client without a policy.
SuccessWithoutPolicy ==
    AnsweredWithoutPolicy /\ api.pc # "requesting" /\ LastEvent.response = Response(200, "OK")

----------------------------------------------------------------------------
(* Errors raised out of an update cycle *)

TypedErrors == {"RateLimitExceeded", "InternalServerError"}

\* C32: a RateLimitExceeded or InternalServerError raised out of an update cycle
\* ends that cycle only: the loop of _run goes on to another cycle.
C32_TypedErrorsAreCycleFatalOnly ==
    app.pc # "none" /\ app.error \in TypedErrors => app.pc = "running" /\ ~app.propagated

\* What _run does: whatever an update cycle raises ends the loop for good; the
\* sessions are closed, and only CancelledError and NetworkError are kept from
\* propagating.
AnyErrorEndsTheLoop ==
    app.pc # "none" =>
        /\ app.error # "none" <=> app.pc = "ended"
        /\ app.pc = "ended" => app.closed /\ (app.propagated <=> app.error \notin Handled)
        /\ backfill.phase.raised => app.pc = "ended" /\ app.error = backfill.phase.error
        /\ app.error \in TypedErrors => app.propagated

\* No cycle starts once the loop has ended.
NoCycleAfterTheLoopEnded == [][app.pc = "ended" => backfill' = backfill]_vars

\* A cycle completed and the next one raised a typed error.
TypedErrorRaisedInLaterCycle ==
    app.pc = "ended" /\ app.error \in TypedErrors /\ backfill.cycles >= 2

----------------------------------------------------------------------------
(* Pruning of pools that no longer qualify *)

\* The last two calls were update with a snapshot that fails the filter, for an
\* address then registered, and apply_filter.
DisqualifiedThenFiltered ==
    /\ registry.pool_filter
    /\ Len(processed) >= 2
    /\ processed[Len(processed)].op = "apply_filter"
    /\ processed[Len(processed) - 1].op = "update"
    /\ ~pool_filter(processed[Len(processed) - 1].pool[1])
    /\ \E q \in processed[Len(processed) - 1].before :
          q.address = processed[Len(processed) - 1].pool[1].address

Disqualified == processed[Len(processed) - 1].pool[1]

\* C33: a registered pool whose fresh snapshot fails the inclusion predicate is
\* out of the registry after the next apply_filter.
C33_DisqualifiedPoolPruned ==
    DisqualifiedThenFiltered => \A q \in registry.pools : q.address # Disqualified.address

\* What the code does: the failing snapshot is skipped before it is stored, so the
\* registered pool keeps the figures it qualified with and apply_filter keeps it.
DisqualifiedPoolKept ==
    DisqualifiedThenFiltered =>
        /\ ~processed[Len(processed) - 1].stored
        /\ \E q \in registry.pools :
              /\ q.address = Disqualified.address
              /\ pool_filter(q)
              /\ q \in processed[Len(processed) - 1].before

\* Every registered pool passes the filter the registry was built with, and
\* apply_filter removes no pool.
ApplyFilterRemovesNothing ==
    /\ registry.pool_filter => \A q \in registry.pools : pool_filter(q)
    /\ \A i \in 1..Len(processed) :
          processed[i].op = "apply_filter" =>
              IF i = Len(processed) THEN registry.pools = processed[i].before
              ELSE processed[i + 1].before = processed[i].before

----------------------------------------------------------------------------
(* Empty and single-tick inputs *)

ShortInput == pc # "idle" /\ Len(ticks_in) <= 1

\* C34: an empty or single-tick input compresses to zero segments in every view,
\* with no exception raised.
C34_ShortInputGivesNoSegments ==
    ShortInput =>
        /\ pc # "raised"
        /\ pc \in {"views", "trends"} => \A k \in DOMAIN trends_views : Len(trends_views[k]) = 0
        /\ pc = "segments" => Len(segments_out) = 0

\* The Trends views of an empty or single-tick input are all empty, and so is the
\* Segments list of a single tick and that of an empty plain list; Segments on the
\* chart's empty buffer raises ZeroDivisionError.
ShortInputGivesNoTrendsAndEmptyBufferRaises ==
    ShortInput =>
        /\ pc \in {"views", "trends"} => \A k \in DOMAIN trends_views : Len(trends_views[k]) = 0
        /\ pc = "views" => Len(trends_views) = Len(TrendsView)
        /\ pc = "segments" => Len(ticks_in) = 1 /\ Len(segments_out) = 0
        /\ pc = "raised" <=> Len(ticks_in) = 0 /\ pc \notin {"input", "views", "trends",
                                                            "views_again", "trends_again"}
        /\ Len(Segments(ticks_in, reverse_traversal)) = 0

\* The only input Segments raises on is the empty buffer.
OnlyEmptyBufferRaises == pc = "raised" => Len(ticks_in) = 0

\* Segments was called on the chart's buffer before its first tick.
SegmentsCalledOnEmptyBuffer == pc = "raised" /\ Len(ticks_in) = 0

\* All views of a single tick were built.
ViewsOfSingleTickBuilt == pc = "views" /\ Len(ticks_in) = 1


\* Chart.get_pattern of the current revision on a chart of zero or one tick finds
\* no candidate and returns None.
ShortChartGivesNoPattern ==
    chart.ticks.size <= 1 =>
        \A i \in DOMAIN calls : calls[i].match = <<>> /\ calls[i].matching = 0

\* get_pattern was called on a chart of at most one tick.
PatternAskedOfShortChart == chart.ticks.size <= 1 /\ Len(calls) >= 1

----------------------------------------------------------------------------
(* The timeframe cap of a view *)

\* The input of view k under generate_all: the raw trends for the first view, the
\* view before it for the others.
InputOfView(k) == IF k = 1 THEN RawTrends(ticks_in) ELSE trends_views[k - 1]

\* Every trend of `output` longer than the view's cap is one of `input`.
LongTrendsComeFrom(output, input, view) ==
    \A j \in DOMAIN output :
        get_timeframe(output[j]) > view.max_timeframe =>
            \E i \in DOMAIN input : input[i] = output[j]

Capped == {k \in DOMAIN TrendsView : TrendsView[k].max_timeframe # 0}

\* C35: in a view capped at timeframe T, every output segment longer than T is
\* identical to a segment of the view's input; no merge produces one.
C35_NoMergeBeyondCap ==
    /\ pc = "views" =>
          \A k \in Capped : LongTrendsComeFrom(trends_views[k], InputOfView(k), TrendsView[k])
    /\ pc = "trends" /\ trends_view \in Capped =>
          LongTrendsComeFrom(trends_views[1], RawTrends(ticks_in), TrendsView[trends_view])

\* A capped view kept an input trend that, merged with a codirectional neighbour,
\* would exceed the cap, next to a trend that is itself a merge.
C35_Witness ==
    /\ pc = "trends"
    /\ trends_view \in Capped
    /\ \E j \in 1..(Len(trends_views[1]) - 1) :
          /\ is_codirectional_with(trends_views[1][j], trends_views[1][j + 1])
          /\ get_timeframe(trends_views[1][j]) + get_timeframe(trends_views[1][j + 1])
                 > TrendsView[trends_view].max_timeframe
    /\ \E j \in DOMAIN trends_views[1] :
          \A i \in DOMAIN RawTrends(ticks_in) : RawTrends(ticks_in)[i] # trends_views[1][j]

\* An absorbable triple was left alone because the three together exceed the cap.
AbsorptionRejectedByCap ==
    /\ pc = "trends"
    /\ trends_view \in Capped
    /\ \E j \in 1..(Len(trends_views[1]) - 2) :
          /\ can_be_absorbed(trends_views[1][j + 2], trends_views[1][j + 1], trends_views[1][j])
          /\ ~are_within_limits(TrendsView[trends_view],
                                <<trends_views[1][j + 2], trends_views[1][j + 1],
                                  trends_views[1][j]>>)

----------------------------------------------------------------------------
(* Starvation of the backfill *)

\* ceil(n / b) for b >= 1
CeilDiv(n, b) == (n + b - 1) \div b

\* The cycles within which every pool is to be backfilled: ceil(N / B) for N
\* tracked pools and B the fewest free slots any phase found.
BackfillWindow == CeilDiv(Cardinality(backfill.pools), backfill.least_available[1])

BackfilledWithinWindow ==
    \A x \in backfill.pools :
        /\ x \in DOMAIN backfill.served
        /\ backfill.served[x] > backfill.cycles - BackfillWindow

\* C40: with N tracked pools and at least B >= 1 free slots in every cycle, every
\* pool is backfilled at least once in any ceil(N / B) consecutive cycles.
C40_BackfillStarvationFree ==
    /\ backfill.least_available # <<>>
    /\ backfill.least_available[1] >= 1
    /\ backfill.cycles >= BackfillWindow
    => BackfilledWithinWindow

\* A cycle found a free slot for each of its pools and ended in the TypeError of
\* its first get_ohlcv call.
BackfillCallRejected ==
    /\ app.pc = "ended"
    /\ app.error = "TypeError"
    /\ Phase.available >= Cardinality(backfill.pools)
    /\ backfill.served = <<>>


----------------------------------------------------------------------------
(* Raise-on-limit mode and expired timestamps *)

\* The timestamps of tl that _clear_outdated_requests would keep at time t.
WithinPeriod(tl, t, period) == SelectSeq(tl, LAMBDA ts : t - ts <= period)

\* C37: in raise-on-limit mode mark_request_sending raises RateLimitExceeded only
\* when max requests were recorded within the last time period; timestamps older
\* than the period do not cause a raise, whether or not an availability query
\* has pruned them.
C37_RaisesOnlyWithinPeriod ==
    (rl_ret.op = "mark" /\ rl_ret.error = "RateLimitExceeded")
        => Len(WithinPeriod(timeline, now, request_limits.time_period)) = request_limits.max

\* What the raise does follow: the number of timestamps still in the deque.
RaisesOnFullDeque ==
    (rl_ret.op = "mark" /\ rl_ret.error = "RateLimitExceeded")
        => (raise_on_limit /\ Len(timeline) = request_limits.max)

\* After an availability query at the same instant the deque holds no expired
\* timestamp, so a raise right after it is a raise on requests of the period.
PrunedBeforeMark ==
    [][(rl_ret.op \in {"available", "time_until"} /\ rl_ret.error = "none"
            /\ rl_ret'.op = "mark" /\ rl_ret'.error = "RateLimitExceeded")
        => Len(WithinPeriod(timeline', now', request_limits.time_period)) = request_limits.max]_vars

\* mark_request_sending has raised although every tracked timestamp had expired.
RaisedOnExpiredTimestamps ==
    /\ rl_ret.op = "mark"
    /\ rl_ret.error = "RateLimitExceeded"
    /\ WithinPeriod(timeline, now, request_limits.time_period) = <<>>


----------------------------------------------------------------------------
(* The compressed output covers the input time span *)

\* A chronological list of <<start, end>> spans that tiles the time from the
\* first tick to the last: it starts and ends there, each span ends where the
\* next starts, and no span is empty or reversed.
TilesSpan(spans, ticks) ==
    /\ Len(spans) >= 1
    /\ spans[1][1] = ticks[1].timestamp
    /\ spans[Len(spans)][2] = ticks[Len(ticks)].timestamp
    /\ \A k \in 1..(Len(spans) - 1) : spans[k][2] = spans[k + 1][1]
    /\ \A k \in 1..Len(spans) : spans[k][1] < spans[k][2]

TrendSpans(trends) ==
    [k \in 1..Len(trends) |-> <<trends[k].start_timestamp, trends[k].end_timestamp>>]

SegmentSpans(segments) ==
    [k \in 1..Len(segments) |-> <<get_start_timestamp(segments[k]), get_end_timestamp(segments[k])>>]

\* C38: for two or more ticks with strictly increasing timestamps, the output of
\* every view tiles the input time span in chronological order: the first segment
\* starts at the first tick, the last ends at the last tick, each segment ends
\* where the next one starts, and every segment has start < end. Checked for
\* every Trends view, the Segments view with either traversal, and their
\* recompressed outputs.
C38_OutputTilesTheInput ==
    (pc # "idle" /\ Len(ticks_in) >= 2)
        => /\ pc \in {"views", "trends", "views_again", "trends_again"}
                => \A k \in 1..Len(trends_views) : TilesSpan(TrendSpans(trends_views[k]), ticks_in)
           /\ pc \in {"views_again", "trends_again"}
                => TilesSpan(TrendSpans(recompressed), ticks_in)
           /\ pc \in {"segments", "segments_again"}
                => TilesSpan(SegmentSpans(segments_out), ticks_in)
           /\ pc = "segments_again"
                => TilesSpan(SegmentSpans(recompressed), ticks_in)

\* All views of a five-tick input were built; the first view merged some raw
\* trends but kept more than one, and the uncapped view merged further and still
\* holds more than one trend.
C38_Witness ==
    /\ pc = "views"
    /\ Len(ticks_in) = MaxTicks
    /\ Len(trends_views[1]) > 1
    /\ Len(trends_views[1]) < Len(ticks_in) - 1
    /\ Len(trends_views[Len(TrendsView)]) < Len(trends_views[1])
    /\ Len(trends_views[Len(TrendsView)]) > 1


----------------------------------------------------------------------------
(* Termination of the compression loop *)

\* A measure of the work left: each merge removes at least one element and backs
\* the index up by at most two.
LoopMeasure(l) == 3 * Len(l.trends) - l.i

\* C39: the compression loop terminates for every finite input and every cap
\* setting: once started, the loop reaches its end.
C39_LoopTerminates == (loop.pc = "scanning") ~> (loop.pc = "done")

\* Every iteration either removes at least one element or advances the index by
\* one, and the measure of the work left strictly decreases and stays positive.
EveryIterationProgresses ==
    [][(loop.pc = "scanning" /\ loop'.pc = "scanning")
        => /\ \/ Len(loop'.trends) < Len(loop.trends)
              \/ (loop'.trends = loop.trends /\ loop'.i = loop.i + 1)
           /\ LoopMeasure(loop') < LoopMeasure(loop)
           /\ LoopMeasure(loop') >= 0
           /\ loop'.i >= loop.i - 2]_vars

\* The loop taken one iteration at a time builds what the compressor builds.
LoopBuildsTheView ==
    loop.pc = "done"
        => IF loop.revision = "Segments"
           THEN (IF loop.reverse THEN Reverse(loop.trends) ELSE loop.trends)
                    = Segments(loop.ticks, loop.reverse)
           ELSE IF loop.first_view = 1
           THEN Reverse(loop.trends) = generate_all(loop.ticks)[loop.view]
           ELSE loop.first_view = loop.view
                    => Reverse(loop.trends) = initialize(RawTrends(loop.ticks), TrendsView[loop.view])

\* A capped view finished after an iteration met a same-direction pair over the
\* cap and another backed the index up after a merge.
C39_Witness ==
    /\ loop.pc = "done"
    /\ loop.revision = "Trends"
    /\ TrendsView[loop.view].max_timeframe # 0
    /\ loop.rejected
    /\ loop.merged
    /\ Len(loop.ticks) = MaxTicks

----------------------------------------------------------------------------
(* Shared state under cooperative scheduling *)

\* A registry that tracks the pair and a tick buffer that ends with the last tick
\* it was given.
Settled(pools, ticks, spliced) ==
    /\ pools # {}
    /\ Len(ticks) >= 1
    /\ ticks[Len(ticks)] = spliced

\* C36: the mutations of the registry, the tick buffer and the rate limiter run
\* without a suspension point, so whatever a handler reads, and whatever state the
\* update cycle is suspended in, is never an intermediate one: the registry is
\* never seen between the eviction of the loser and the insertion of the winner,
\* nor the tick buffer between the dropping of its tail and the splice.
C36_NoIntermediateStateObserved ==
    tasks.running # "off"
        => /\ \A k \in 1..Len(tasks.seen) :
                Settled(tasks.seen[k].pools, tasks.seen[k].ticks, tasks.seen[k].spliced)
           /\ tasks.running # "cycle" => Settled(tasks.pools, tasks.ticks, tasks.spliced)

\* The intermediate states exist: the update cycle is between the eviction and the
\* insertion, or between the dropped tail and the splice.
MidUpdate ==
    /\ tasks.running = "cycle"
    /\ ~Settled(tasks.pools, tasks.ticks, tasks.spliced)

\* A handler read the registry while the update cycle was suspended in its
\* backfill request, after the cycle had evicted the loser and stored the winner.
C36_Witness ==
    /\ tasks.running = "handler"
    /\ tasks.cycle >= 2
    /\ CycleProgram[tasks.cycle - 1] = "get_ohlcv"
    /\ tasks.cycles = 1
    /\ Len(tasks.seen) = 1
    /\ tasks.seen[1].pools = {2}
    /\ tasks.seen[1].ticks = <<0, 1>>
    /\ tasks.seen[1].requests = 3

====
